---- MODULE Spec2Model ----
(***************************************************************************)
(* A model of the PDF layer pipeline of pdfs-api:                          *)
(*   src/pdf_processor/page.py     group_by_z_index, make_object           *)
(*   src/pdf_processor/render.py   create_layer, render_pages              *)
(*   src/pdf_processor/process.py  process_pdf                             *)
(*   src/handlers/s3_event_processor.py  process_object                    *)
(*                                                                         *)
(* Lengths are integers in units of 1e-5 page units, so the code's         *)
(* threshold 0.0001 is 10.  A raw page is the pre-order list of its        *)
(* pdfium page objects; each object carries the Form XObject nesting level *)
(* at which pdfium's enumeration meets it.                                 *)
(***************************************************************************)
EXTENDS Integers, Sequences, FiniteSets, TLC

\* ------------------------------------------------------------------ bounds
\* longest primitive list of a flat page
MaxObjs == 3
\* longest primitive list of a page with nested Form XObjects
MaxNested == 4
\* deepest Form XObject nesting level on a page (0 = directly on the page)
MaxLevel == 2
\* most pages of a source document
MaxPages == 2
\* longest primitive list of a page of a source document
MaxDocObjs == 2
\* most primitives of a source document, all pages together
MaxSourceObjs == 4
\* most decimal digits of a page number or z-index whose path is formatted
MaxDigits == 4
\* most calls of Document.update_status on one Document
MaxCalls == 3

\* ------------------------------------------------------- program constants
\* 0.0001, the zero-area threshold of group_by_z_index, in units of 1e-5
Epsilon == 10
\* Python's None (prev_type before the first object, z of a zero-area object)
None == -1
\* max_depth of page.get_objects() when the caller passes none (pypdfium2 4.x)
DefaultMaxDepth == 2
\* max_depth create_layer passes to page.get_objects
LayerMaxDepth == 5

FPDF_PAGEOBJ_FORM == 5
\* the minimum field width of the format specs {page.number:03d}, {z_idx:03d}
PadWidth == 3

\* mapping of PDF object types to domain model types
TYPE_NAMES ==
    (1 :> "text") @@ (2 :> "path") @@ (3 :> "image") @@ (4 :> "shade") @@ (5 :> "form")

\* ----------------------------------------------------------------- inputs
\* native type tags drawn for flat pages: 0 is pdfium's FPDF_PAGEOBJ_UNKNOWN,
\* 6 stands for any tag the table does not know
RawTypes == {0, 1, 2, 5, 6}

\* bounding boxes (bx, by, tx, ty): width exactly at the threshold, width
\* just below it, height just below it
Boxes == {<<5, 5, 15, 25>>, <<5, 5, 14, 25>>, <<5, 5, 25, 14>>}

\* the objects of a page without nested Form XObjects
FlatObjects == [type : RawTypes, level : {0}, pos : Boxes]

\* the objects of a page with Form XObjects (tag 5) nested up to MaxLevel
NestedObjects ==
    [type : {1, FPDF_PAGEOBJ_FORM}, level : 0..MaxLevel,
     pos : {<<5, 5, 15, 25>>, <<5, 5, 14, 25>>}]

\* a pre-order list is a page iff it starts on the page itself and an object
\* lies one level deeper than its predecessor only inside a Form XObject
WellNested(p) ==
    /\ Len(p) > 0 => p[1].level = 0
    /\ \A i \in 1..(Len(p) - 1) :
         /\ p[i + 1].level <= p[i].level + 1
         /\ p[i + 1].level = p[i].level + 1 => p[i].type = FPDF_PAGEOBJ_FORM

\* the pages of a source document: a text, a path and a zero-width path
DocObjects ==
    { [type |-> 1, level |-> 0, pos |-> <<5, 5, 15, 25>>],
      [type |-> 2, level |-> 0, pos |-> <<5, 5, 15, 25>>],
      [type |-> 2, level |-> 0, pos |-> <<5, 5, 14, 25>>] }

DocPages == UNION { [1..n -> DocObjects] : n \in 0..MaxDocObjs }

RECURSIVE ObjectCount(_, _)
\* the number of primitives on the first n pages of a source document
ObjectCount(doc, n) == IF n = 0 THEN 0 ELSE ObjectCount(doc, n - 1) + Len(doc[n])

\* ------------------------------------------------------ sequence helpers
Min(a, b) == IF a < b THEN a ELSE b

RECURSIVE SelectIdx(_, _, _)
\* the indices i >= from of s, in order, with s[i].level < depth
SelectIdx(s, from, depth) ==
    IF from > Len(s) THEN <<>>
    ELSE IF s[from].level < depth
         THEN <<from>> \o SelectIdx(s, from + 1, depth)
         ELSE SelectIdx(s, from + 1, depth)

\* page.get_objects(max_depth): the objects pdfium yields, as indices into the
\* page's pre-order list; recursion into a form stops at level max_depth - 1
GetObjects(p, max_depth) == SelectIdx(p, 1, max_depth)

\* ------------------------------------------------ Python dict (insertion order)
DictKeys(d) == { d[k].key : k \in 1..Len(d) }

\* a dict that yields its newest key first
SetDefaultAppendFront(d, key, v) ==
    IF key \in DictKeys(d)
    THEN [k \in 1..Len(d) |->
            IF d[k].key = key THEN [key |-> key, value |-> Append(d[k].value, v)] ELSE d[k]]
    ELSE <<[key |-> key, value |-> <<v>>]>> \o d

\* d.setdefault(key, []).append(v)
SetDefaultAppend(d, key, v) ==
    IF key \in DictKeys(d)
    THEN [k \in 1..Len(d) |->
            IF d[k].key = key THEN [key |-> key, value |-> Append(d[k].value, v)] ELSE d[k]]
    ELSE Append(d, [key |-> key, value |-> <<v>>])

\* -------------------------------------------------------------- page.py
Classify(t) == IF t \in DOMAIN TYPE_NAMES THEN TYPE_NAMES[t] ELSE "unknown"

\* make_object with the index stored as the z-index (arguments swapped)
make_objectSwapped(i, z, obj) ==
    [id |-> i, type |-> Classify(obj.type), bbox |-> obj.pos, z_index |-> i]

\* make_object(i, z, obj); the text excerpt is not modelled
make_object(i, z, obj) ==
    [id |-> i, type |-> Classify(obj.type), bbox |-> obj.pos, z_index |-> z]

\* the threshold test with <= in place of <
IsZeroAreaLe(pos) == (pos[3] - pos[1]) <= Epsilon \/ (pos[4] - pos[2]) <= Epsilon

\* the threshold test with "and" in place of "or"
IsZeroAreaAnd(pos) == (pos[3] - pos[1]) < Epsilon /\ (pos[4] - pos[2]) < Epsilon

\* (tx - bx) < 0.0001 or (ty - by) < 0.0001
IsZeroArea(pos) == (pos[3] - pos[1]) < Epsilon \/ (pos[4] - pos[2]) < Epsilon

\* one z-index per type instead of one per run
NextZByType(z_index, type, prev_type) == type + 1

\* the change of type assigning 1 instead of adding 1
NextZAssign(z_index, type, prev_type) == IF type # prev_type THEN 1 ELSE z_index

\* "detect change of type": the z-index of the next non-zero-area object
NextZ(z_index, type, prev_type) == IF type # prev_type THEN z_index + 1 ELSE z_index

\* the loop body without its "continue": a zero-area object is grouped as well
SegStepNoContinue(acc, i, obj) ==
    LET z == NextZ(acc.z_index, obj.type, acc.prev_type)
    IN [z_index |-> z,
        z_index_groups |-> SetDefaultAppend(acc.z_index_groups, z, make_object(i, z, obj)),
        zero_area_objects |->
            IF IsZeroArea(obj.pos)
            THEN Append(acc.zero_area_objects, make_object(i, None, obj))
            ELSE acc.zero_area_objects,
        prev_type |-> obj.type]

\* the loop body with prev_type updated before the zero-area test
SegStepZeroSetsPrev(acc, i, obj) ==
    IF IsZeroArea(obj.pos)
    THEN [acc EXCEPT !.zero_area_objects = Append(@, make_object(i, None, obj)),
                     !.prev_type = obj.type]
    ELSE LET z == NextZ(acc.z_index, obj.type, acc.prev_type)
         IN [z_index |-> z,
             z_index_groups |-> SetDefaultAppend(acc.z_index_groups, z, make_object(i, z, obj)),
             zero_area_objects |-> acc.zero_area_objects,
             prev_type |-> obj.type]

\* the loop body with a zero-area object of a new type using up a z-index
SegStepZeroCounts(acc, i, obj) ==
    IF IsZeroArea(obj.pos)
    THEN [acc EXCEPT !.zero_area_objects = Append(@, make_object(i, None, obj)),
                     !.z_index = NextZ(@, obj.type, acc.prev_type),
                     !.prev_type = obj.type]
    ELSE LET z == NextZ(acc.z_index, obj.type, acc.prev_type)
         IN [z_index |-> z,
             z_index_groups |-> SetDefaultAppend(acc.z_index_groups, z, make_object(i, z, obj)),
             zero_area_objects |-> acc.zero_area_objects,
             prev_type |-> obj.type]

\* one iteration of the loop of group_by_z_index on (i, obj)
SegStep(acc, i, obj) ==
    IF IsZeroArea(obj.pos)
    THEN [acc EXCEPT !.zero_area_objects = Append(@, make_object(i, None, obj))]
    ELSE LET z == NextZ(acc.z_index, obj.type, acc.prev_type)
         IN [z_index |-> z,
             z_index_groups |-> SetDefaultAppend(acc.z_index_groups, z, make_object(i, z, obj)),
             zero_area_objects |-> acc.zero_area_objects,
             prev_type |-> obj.type]

SegInit ==
    [z_index |-> 0, z_index_groups |-> <<>>, zero_area_objects |-> <<>>, prev_type |-> None]

RECURSIVE SegLoop(_, _, _)
\* the loop over enumerate(objs) from position k (1-based; i = k - 1)
SegLoop(acc, objs, k) ==
    IF k > Len(objs) THEN acc
    ELSE SegLoop(SegStep(acc, k - 1, objs[k]), objs, k + 1)

\* "convert to Layer objects": one Layer per non-empty group, in dict order
MakeLayers(groups) ==
    LET kept == SelectSeq(groups, LAMBDA e : Len(e.value) > 0)
    IN [k \in 1..Len(kept) |->
          [key |-> kept[k].key,
           value |-> [z_index |-> kept[k].key,
                      type |-> kept[k].value[1].type,
                      objects |-> kept[k].value]]]

\* group_by_z_index over the objects the page yields
group_by_z_index(objs) ==
    LET acc == SegLoop(SegInit, objs, 1)
    IN [layers |-> MakeLayers(acc.z_index_groups), zero_area_objects |-> acc.zero_area_objects]

\* the pdfium objects behind the indices get_objects yields
Yielded(p, max_depth) ==
    LET idx == GetObjects(p, max_depth) IN [k \in 1..Len(idx) |-> p[idx[k]]]

\* ------------------------------------------------------------- render.py
\* create_layer: objs[:start] + objs[end + 1:], as indices into the page
ObjsToRemove(p, start, end) ==
    LET objs == GetObjects(p, LayerMaxDepth)
        n == Len(objs)
    IN SubSeq(objs, 1, Min(start, n)) \o SubSeq(objs, end + 2, n)

\* process_page(num, page) up to the page geometry
Page(num, p) ==
    LET r == group_by_z_index(Yielded(p, DefaultMaxDepth))
    IN [number |-> num, layers |-> r.layers, zero_area_objects |-> r.zero_area_objects]

\* extract_pages: [process_page(i + 1, pdf[i]) for i in range(n_pages)]
extract_pages(doc) == [i \in 1..Len(doc) |-> Page(i, doc[i])]

\* ------------------------------------------------------------ output paths
\* str(d) of the decimal digits
DigitChar == <<"0", "1", "2", "3", "4", "5", "6", "7", "8", "9">>

RECURSIVE Decimal(_)
\* the decimal digits of n >= 0, most significant first
Decimal(n) == IF n < 10 THEN <<n>> ELSE Append(Decimal(n \div 10), n % 10)

\* a fixed-width field: the last PadWidth digits, zero-padded
Format03dFixed(n) ==
    LET d == Decimal(n % (10 ^ PadWidth))
    IN [i \in 1..PadWidth |->
          IF i <= PadWidth - Len(d) THEN "0" ELSE DigitChar[d[i - (PadWidth - Len(d))] + 1]]

\* f"{n:03d}" for n >= 0: the decimal digits, zero-padded on the left to
\* PadWidth characters and never truncated
Format03d(n) ==
    LET d == Decimal(n)
        pad == IF Len(d) < PadWidth THEN PadWidth - Len(d) ELSE 0
    IN [i \in 1..(pad + Len(d)) |-> IF i <= pad THEN "0" ELSE DigitChar[d[i - pad] + 1]]

\* page_dir = dir / f"p{page.number:03d}" below working_dir / "pages"
page_dir(number) == << <<"pages">>, <<"p">> \o Format03d(number) >>

\* page_file = page_dir / "page.png"
page_file(number) == Append(page_dir(number), <<"page.png">>)

\* layer_file = page_dir / f"l{z_idx:03d}.png"
layer_file(number, z_idx) ==
    Append(page_dir(number), <<"l">> \o Format03d(z_idx) \o <<".png">>)

\* the path of raster <<N, z>>: page.png for z = 0, else the layer file
raster_file(r) == IF r[2] = 0 THEN page_file(r[1]) ELSE layer_file(r[1], r[2])

RECURSIVE FromDigits(_, _)
\* the number with the decimal digits d[1..n]
FromDigits(d, n) == IF n = 0 THEN 0 ELSE 10 * FromDigits(d, n - 1) + d[n]

\* page numbers and z-indices drawn for the paths: those of up to MaxDigits
\* digits 0 and 1 (1, 10, 11, 100, ..., 1000, 1001, ...)
PathNumbers == { FromDigits(d, MaxDigits) : d \in [1..MaxDigits -> {0, 1}] } \ {0}

\* DynamoDBDocumentRepository.page_bundle_sk: f"PAGE#{document_id}#{page_number:03d}"
page_bundle_sk(document_id, page_number) ==
    <<"PAGE#", document_id, "#">> \o Format03d(page_number)

\* ------------------------------------------------------------ document.py
\* extract_meta_data for the files of this model, which carry no page
\* labels and no outline (empty lists become None); the dict's other entries
\* (version, form type, page mode, ...) are read from the file unchanged
extract_meta_data(doc) ==
    << [key |-> "page_labels", value |-> None], [key |-> "toc", value |-> None] >>

\* ------------------------------------------------------ domain: status
\* ProcessingStatus
ProcessingStatuses == {"processing", "completed", "failed"}

\* valid_transitions.get(self, set())
valid_transitions(self) ==
    CASE self = "processing" -> {"completed", "failed"}
      [] self = "completed" -> {}
      [] self = "failed" -> {}
      [] OTHER -> {}

\* a status that may change to any other status
can_transition_toAny(self, new_status) == new_status # self

\* ProcessingStatus.can_transition_to
can_transition_to(self, new_status) == new_status \in valid_transitions(self)

\* ---------------------------------------------------------------- upload
NoException == [class |-> "none", code |-> ""]

\* the classes an exception class derives from, itself included
Bases(class) ==
    CASE class = "DocumentAlreadyExistsError" ->
            {"DocumentAlreadyExistsError", "StorageError", "Exception"}
      [] class = "StorageError" -> {"StorageError", "Exception"}
      [] class = "BadRequestError" -> {"BadRequestError", "Exception"}
      [] class = "TypeError" -> {"TypeError", "Exception"}
      [] class = "ClientError" -> {"ClientError", "Exception"}
      [] OTHER -> {}

isinstance(e, class) == class \in Bases(e.class)

\* S3Client.upload_file: the exception it raises for the outcome of put_object
upload_file(outcome) ==
    IF outcome = "ok" THEN NoException
    ELSE [class |-> "StorageError", code |-> "upload_file_failed"]

\* DynamoDBClient.put_item: the exception it raises for the outcome of the
\* conditional put
put_item(outcome) ==
    IF outcome = "ok" THEN NoException
    ELSE IF outcome = "ConditionalCheckFailedException"
         THEN [class |-> "DocumentAlreadyExistsError", code |-> "DOCUMENT_ALREADY_EXISTS"]
         ELSE [class |-> "StorageError", code |-> "put_item_failed"]

\* the inner try of upload_from_file / upload_from_url around put_item:
\* DocumentAlreadyExistsError is raised again, any other exception becomes
\* StorageError dynamodb_write_failed
create_record(put) ==
    LET e == put_item(put)
    IN IF e = NoException THEN NoException
       ELSE IF isinstance(e, "DocumentAlreadyExistsError") THEN e
       ELSE IF isinstance(e, "Exception")
            THEN [class |-> "StorageError", code |-> "dynamodb_write_failed"]
            ELSE e

\* UploadService.upload_from_file: the exception that leaves it; its outer
\* `except Exception` turns whatever was raised in the try, the inner
\* try included, into StorageError s3_upload_failed
upload_from_file(s3, put) ==
    LET e == IF upload_file(s3) # NoException THEN upload_file(s3) ELSE create_record(put)
    IN IF e = NoException THEN NoException
       ELSE IF isinstance(e, "Exception")
            THEN [class |-> "StorageError", code |-> "s3_upload_failed"]
            ELSE e

\* UploadService.upload_from_url: the same after requests.get; a status
\* other than 200 raises StorageError url_download_failed inside the try
upload_from_url(get, s3, put) ==
    LET e == IF get # 200 THEN [class |-> "StorageError", code |-> "url_download_failed"]
             ELSE IF upload_file(s3) # NoException THEN upload_file(s3)
             ELSE create_record(put)
    IN IF e = NoException THEN NoException
       ELSE IF isinstance(e, "Exception")
            THEN [class |-> "StorageError", code |-> "upload_failed"]
            ELSE e

\* `await` applied to the str a service method returned
await_str == [class |-> "TypeError", code |-> ""]

\* _handle_client_error: the status code for a BadRequestError or StorageError
handle_client_error(e) ==
    IF isinstance(e, "DocumentAlreadyExistsError") THEN 409
    ELSE IF isinstance(e, "BadRequestError") THEN 400
    ELSE 500

\* the except clauses of handle_upload_document
status_code(e) ==
    IF isinstance(e, "BadRequestError") \/ isinstance(e, "StorageError")
    THEN handle_client_error(e)
    ELSE 500

\* upload requests: the form (file content type or "none", url given or
\* not), the user id of the context, and what S3, DynamoDB and the URL's
\* server answer
Requests ==
    [user_id : {"", "user"}, file : {"none", "application/pdf", "text/plain"},
     url : BOOLEAN, s3 : {"ok", "ClientError"},
     put : {"ok", "ConditionalCheckFailedException", "ClientError"}, get : {200, 404}]

\* ------------------------------------------------------- document handles
\* pdfium.PdfDocument(file): a handle on a fresh in-memory copy of the file;
\* per page the indices of the file's objects present in the copy
PdfDocument(file) == [i \in 1..Len(file) |-> [j \in 1..Len(file[i]) |-> j]]

\* bool(pdf) of `if pdf:`: PdfDocument has __len__ (len(pdf) is its page
\* count) and no __bool__, so a handle is true iff it has at least one page
Truthy(doc) == Len(doc) > 0

\* create_layer on the page of a handle: the objects left on the page after
\* page.remove_obj of objs[:start] + objs[end + 1:]
create_layer(file_page, present, start, end) ==
    LET sub == [k \in 1..Len(present) |-> file_page[present[k]]]
        rm == ObjsToRemove(sub, start, end)
        rmset == { rm[k] : k \in 1..Len(rm) }
        keep == SelectSeq([k \in 1..Len(present) |-> k], LAMBDA k : k \notin rmset)
    IN [m \in 1..Len(keep) |-> present[keep[m]]]

\* --------------------------------------------------------- domain objects
\* Document(id, user_id, name, source, status) with no pages yet; the
\* page_count property is len(pages), and there is no info attribute
TheDocument ==
    [id |-> "doc", user_id |-> "user", name |-> "name", source |-> "file",
     status |-> "processing", pages |-> <<>>, page_count |-> 0, info |-> <<>>]

\* no Document object
NoDoc == [id |-> "", user_id |-> "", name |-> "", source |-> "",
          status |-> "", pages |-> <<>>, page_count |-> None, info |-> <<>>]

\* document.model_copy(update={"page_count": ..., "pages": ..., "info": ...}):
\* a shallow copy with the three entries replaced
model_copy(d, page_count_, pages_, info_) ==
    [d EXCEPT !.page_count = page_count_, !.pages = pages_, !.info = info_]

\* ------------------------------------------------------------------ state
VARIABLES
    pc,                 \* position of the modelled call
    page,               \* the raw page: pre-order list of pdfium objects
    layers,             \* Page.layers: dict z_index -> Layer
    zero_area_objects,  \* Page.zero_area_objects
    range,              \* (start, end) of the last render_layer call, or <<>>
    removed,            \* objs_to_remove of the last create_layer call
    entry,              \* the function called: "process_object" or "process_pdf"
    pdf,                \* the source document: the raw pages of original.pdf
    original,           \* whether <working_dir>/original.pdf exists
    pages,              \* list[Page] built by extract_pages
    cur,                \* render_pages: index of the page being rendered
    lcur,               \* render_pages: 0 before page.png, k before the k-th layer
    dirs,               \* page numbers N whose directory pages/pNNN exists
    files,              \* rasters written: <<N, 0>> is page.png, <<N, z>> is l{z}.png
    status,             \* status of the document record, "absent" if there is none
    page_count,         \* page_count of the document record
    s3_keys,            \* rasters uploaded under <user>/<doc>/pages
    bundles,            \* sort keys of the page bundle items handed to batch_put_items
    error,              \* the call whose exception left the function, or "none"
    failed,             \* the raster whose render raised, or <<>>
    handle,             \* process_pdf's handle `pdf`: "none", "open" or "closed"
    opens,              \* how often process_pdf has called pdfium.PdfDocument(file)
    temp_doc,           \* the handle of the last render call after the call, or <<>>
    view,               \* the objects the last render call found on its page
    writes,             \* the rasters saved so far, in the order of the saves
    document,           \* the Document object passed to process_pdf
    returned,           \* the Document object process_pdf returned, or NoDoc
    record_info,        \* info of the document record
    rasters,            \* the rasters <<N, z>> render_pages is to write
    paths,              \* the path render_pages built for each raster, or <<>>
    doc_status,         \* Document.status of the Document update_status is called on
    calls,              \* the update_status calls so far: status before, request, outcome
    request,            \* the upload request and the answers of its environment
    route,              \* the UploadService method _process_upload called, or "none"
    raised,             \* the exception that left _process_upload, or NoException
    response,           \* statusCode of the handler's response, or None
    responses,          \* the response pages table.query answers with, in key order
    limit,              \* the limit _paginated_query is called with, or None
    items,              \* the items _paginated_query has collected
    last_evaluated_key, \* LastEvaluatedKey of the previous response, or None
    queries,            \* ExclusiveStartKey of each query issued so far, None when absent
    batch_items,        \* the items batch_put_items is called with
    chunk_start,        \* the loop variable i of batch_put_items: offset of the current chunk
    unprocessed,        \* UnprocessedItems of the last batch_write_item response
    retry_count,        \* retries made for the current chunk
    sends,              \* per chunk started: its first item, its size, the batch_write_item calls made
    written,            \* the items DynamoDB has processed
    batch_raised,       \* the exception that left batch_put_items, or NoException
    list_user,          \* the user_id list_documents is called with
    table_items,        \* the items the client query answers with, in query order
    list_query,         \* pk and sk_prefix of the query list_documents made, or <<>>
    listed,             \* the Documents list_documents returned
    list_raised,        \* the exception that left list_documents, or NoException
    dom_layer,          \* a Layer: its type and its objects
    dom_layers,         \* Page.layers of a Page: dict z_index -> Layer
    dom_pages,          \* Document.pages of a Document: dict number -> Page
    adds,               \* the add_object, add_layer and add_page calls so far: state before, argument, outcome
    bundle_page,        \* the Page process_page produced, to be saved
    bundle_item,        \* the item _serialize_page made of it, or <<>>
    loaded,             \* the Page _deserialize_page made of the item, or <<>>
    load_raised,        \* the exception that left _deserialize_page, or "none"
    s3_objects,         \* the keys sync_directory stored the page's rasters under
    signed,             \* the keys handle_get_page_bundle signed a URL for
    event,              \* the SQS event: per record, the S3 objects of its body
    doc_records,        \* the document record of each document, NoRecord if there is none
    table_bundles,      \* the page bundle items of the table
    bucket,             \* the keys of the rasters in object storage
    ops,                \* how often each step of process_object has run
    handled             \* per object process_object was called for: key, outcome, stores before and after

pageVars == <<page, layers, zero_area_objects, range, removed>>
docVars == <<entry, pdf, original, pages, cur, lcur, dirs, files, status, page_count,
             s3_keys, bundles, error, failed>>
procVars == <<handle, opens, temp_doc, view, writes, document, returned, record_info>>
pathVars == <<rasters, paths>>
statusVars == <<doc_status, calls>>
uploadVars == <<request, route, raised, response>>
queryVars == <<responses, limit, items, last_evaluated_key, queries>>
batchVars == <<batch_items, chunk_start, unprocessed, retry_count, sends, written, batch_raised>>
listVars == <<list_user, table_items, list_query, listed, list_raised>>
domainVars == <<dom_layer, dom_layers, dom_pages, adds>>
bundleVars == <<bundle_page, bundle_item, loaded, load_raised, s3_objects, signed>>
eventVars == <<event, doc_records, table_bundles, bucket, ops, handled>>
\* the variables of the other specifications
notPage == <<docVars, procVars, pathVars, statusVars, uploadVars, queryVars, batchVars,
    listVars, domainVars, bundleVars, eventVars>>
notDoc == <<pageVars, pathVars, statusVars, uploadVars, queryVars, batchVars, listVars,
    domainVars, bundleVars, eventVars>>
notPath == <<pageVars, docVars, procVars, statusVars, uploadVars, queryVars, batchVars,
    listVars, domainVars, bundleVars, eventVars>>
notStatus == <<pageVars, docVars, procVars, pathVars, uploadVars, queryVars, batchVars,
    listVars, domainVars, bundleVars, eventVars>>
notUpload == <<pageVars, docVars, procVars, pathVars, statusVars, queryVars, batchVars,
    listVars, domainVars, bundleVars, eventVars>>
notQuery == <<pageVars, docVars, procVars, pathVars, statusVars, uploadVars, batchVars,
    listVars, domainVars, bundleVars, eventVars>>
notBatch == <<pageVars, docVars, procVars, pathVars, statusVars, uploadVars, queryVars,
    listVars, domainVars, bundleVars, eventVars>>
notList == <<pageVars, docVars, procVars, pathVars, statusVars, uploadVars, queryVars, batchVars,
    domainVars, bundleVars, eventVars>>
notDomain == <<pageVars, docVars, procVars, pathVars, statusVars, uploadVars, queryVars, batchVars, listVars,
    bundleVars, eventVars>>
notBundle == <<pageVars, docVars, procVars, pathVars, statusVars, uploadVars, queryVars, batchVars, listVars, domainVars,
    eventVars>>
notEvent == <<pageVars, docVars, procVars, pathVars, statusVars, uploadVars, queryVars, batchVars, listVars, domainVars, bundleVars>>
vars == <<pc, pageVars, docVars, procVars, pathVars, statusVars, uploadVars, queryVars,
    batchVars, listVars, domainVars, bundleVars, eventVars>>

NoDocument ==
    /\ entry = "none"
    /\ pdf = <<>>
    /\ original = FALSE
    /\ pages = <<>>
    /\ cur = 0
    /\ lcur = 0
    /\ dirs = {}
    /\ files = {}
    /\ status = "absent"
    /\ page_count = None
    /\ s3_keys = {}
    /\ bundles = {}
    /\ error = "none"
    /\ failed = <<>>
    /\ handle = "none"
    /\ opens = 0
    /\ temp_doc = <<>>
    /\ view = <<>>
    /\ writes = <<>>
    /\ document = NoDoc
    /\ returned = NoDoc
    /\ record_info = <<>>

NoPage ==
    /\ page = <<>>
    /\ layers = <<>>
    /\ zero_area_objects = <<>>
    /\ range = <<>>
    /\ removed = <<>>

NoPaths ==
    /\ rasters = <<>>
    /\ paths = <<>>

NoStatus ==
    /\ doc_status = ""
    /\ calls = <<>>

NoUpload ==
    /\ request = <<>>
    /\ route = "none"
    /\ raised = NoException
    /\ response = None

\* ------------------------------------------------------ page-level actions
NoQuery ==
    /\ responses = <<>>
    /\ limit = None
    /\ items = <<>>
    /\ last_evaluated_key = None
    /\ queries = <<>>

NoBatch ==
    /\ batch_items = <<>>
    /\ chunk_start = 0
    /\ unprocessed = <<>>
    /\ retry_count = 0
    /\ sends = <<>>
    /\ written = {}
    /\ batch_raised = NoException

NoList ==
    /\ list_user = ""
    /\ table_items = <<>>
    /\ list_query = <<>>
    /\ listed = <<>>
    /\ list_raised = NoException

NoDomain ==
    /\ dom_layer = <<>>
    /\ dom_layers = <<>>
    /\ dom_pages = <<>>
    /\ adds = <<>>

NoBundle ==
    /\ bundle_page = <<>>
    /\ bundle_item = <<>>
    /\ loaded = <<>>
    /\ load_raised = "none"
    /\ s3_objects = {}
    /\ signed = {}

NoEvent ==
    /\ event = <<>>
    /\ doc_records = <<>>
    /\ table_bundles = {}
    /\ bucket = {}
    /\ ops = <<>>
    /\ handled = <<>>

PageInit ==
    /\ \/ \E n \in 0..MaxObjs : page \in [1..n -> FlatObjects]
       \/ \E n \in 0..MaxNested : page \in [1..n -> NestedObjects] /\ WellNested(page)
    /\ pc = "page"
    /\ layers = <<>>
    /\ zero_area_objects = <<>>
    /\ range = <<>>
    /\ removed = <<>>
    /\ NoDocument
    /\ NoPaths
    /\ NoStatus
    /\ NoUpload
    /\ NoQuery
    /\ NoBatch
    /\ NoList
    /\ NoDomain
    /\ NoBundle
    /\ NoEvent

\* process_page: segment the page's objects
process_page ==
    /\ pc = "page"
    /\ LET r == group_by_z_index(Yielded(page, DefaultMaxDepth))
       IN /\ layers' = r.layers
          /\ zero_area_objects' = r.zero_area_objects
    /\ pc' = "segmented"
    /\ UNCHANGED <<page, range, removed, notPage>>

\* render_pages' call render_layer(file, n, layer.objects[0].id, layer.objects[-1].id)
\* for one layer of the page, up to create_layer's choice of objects
render_layer ==
    /\ pc = "segmented"
    /\ \E k \in 1..Len(layers) :
         LET objs == layers[k].value.objects
             start == objs[1].id
             end == objs[Len(objs)].id
         IN /\ start <= end
            /\ range' = <<start, end>>
            /\ removed' = ObjsToRemove(page, start, end)
    /\ pc' = "layer"
    /\ UNCHANGED <<page, layers, zero_area_objects, notPage>>

PageNext == process_page \/ render_layer

PageSpec == PageInit /\ [][PageNext]_vars

\* -------------------------------------------------- document-level actions
\* an S3 event for <user>/<doc>/original.pdf reaches process_object, or
\* process_pdf is called on a working directory with a Document
DocInit ==
    /\ NoPage
    /\ NoPaths
    /\ NoStatus
    /\ NoUpload
    /\ NoQuery
    /\ NoBatch
    /\ NoList
    /\ NoDomain
    /\ NoBundle
    /\ NoEvent
    /\ \E n \in 0..MaxPages :
          /\ pdf \in [1..n -> DocPages]
          /\ ObjectCount(pdf, n) <= MaxSourceObjs
    /\ \/ /\ entry = "process_object"
          /\ pc = "get_document"
          /\ status \in {"absent", "processing"}
          /\ original = FALSE
          /\ document = NoDoc
       \/ /\ entry = "process_pdf"
          /\ pc = "process_pdf"
          /\ status = "absent"
          /\ original \in BOOLEAN
          /\ document = TheDocument
    /\ pages = <<>>
    /\ cur = 0
    /\ lcur = 0
    /\ dirs = {}
    /\ files = {}
    /\ page_count = None
    /\ s3_keys = {}
    /\ bundles = {}
    /\ error = "none"
    /\ failed = <<>>
    /\ handle = "none"
    /\ opens = 0
    /\ temp_doc = <<>>
    /\ view = <<>>
    /\ writes = <<>>
    /\ returned = NoDoc
    /\ record_info = <<>>

\* an exception of call `what` leaves the function
Raise(what) ==
    /\ pc' = "raised"
    /\ error' = what

\* repository.get_document_by_id; DocumentNotFoundError is logged and
\* process_object returns
get_document ==
    /\ pc = "get_document"
    /\ IF status = "absent"
       THEN pc' = "done" /\ document' = document
       ELSE pc' = "download" /\ document' = TheDocument
    /\ UNCHANGED <<notDoc, docVars, handle, opens, temp_doc, view, writes, returned, record_info>>

\* s3.download_file to <tmp_dir>/original.pdf
download_file ==
    /\ pc = "download"
    /\ original' = TRUE
    /\ pc' = "process_pdf"
    /\ UNCHANGED <<notDoc, procVars, entry, pdf, pages, cur, lcur, dirs, files, status,
                   page_count, s3_keys, bundles, error, failed>>

\* s3.download_file raises StorageError
download_file_fails ==
    /\ pc = "download"
    /\ Raise("download_file")
    /\ UNCHANGED <<notDoc, procVars, entry, pdf, original, pages, cur, lcur, dirs, files,
                   status, page_count, s3_keys, bundles, failed>>

\* process_pdf without the test of file.exists()
process_pdf_startNoCheck ==
    /\ pc = "process_pdf"
    /\ pc' = "open"
    /\ UNCHANGED <<notDoc, procVars, docVars>>

\* process_pdf: file.exists(), else FileNotFoundError
process_pdf_start ==
    /\ pc = "process_pdf"
    /\ IF original THEN pc' = "open" /\ error' = error ELSE Raise("FileNotFoundError")
    /\ UNCHANGED <<notDoc, procVars, entry, pdf, original, pages, cur, lcur, dirs, files,
                   status, page_count, s3_keys, bundles, failed>>

\* pdf = pdfium.PdfDocument(file)
open_document ==
    /\ pc = "open"
    /\ handle' = "open"
    /\ opens' = opens + 1
    /\ pc' = "extract"
    /\ UNCHANGED <<notDoc, docVars, temp_doc, view, writes, document, returned, record_info>>

\* the source cannot be opened as a PDF: pdf stays None, the finally clause
\* has nothing to close and the exception leaves process_pdf
open_document_fails ==
    /\ pc = "open"
    /\ opens' = opens + 1
    /\ Raise("PdfDocument")
    /\ UNCHANGED <<notDoc, entry, pdf, original, pages, cur, lcur, dirs, files, status,
                   page_count, s3_keys, bundles, failed,
                   handle, temp_doc, view, writes, document, returned, record_info>>

\* meta = extract_meta_data(pdf); pages = extract_pages(pdf)
extract ==
    /\ pc = "extract"
    /\ pages' = extract_pages(pdf)
    /\ pc' = "finally"
    /\ UNCHANGED <<notDoc, procVars, entry, pdf, original, cur, lcur, dirs, files, status,
                   page_count, s3_keys, bundles, error, failed>>

\* the metadata or the geometry of a page cannot be read: the exception
\* is pending while the finally clause runs
extract_fails ==
    /\ pc = "extract"
    /\ error' = "extract"
    /\ pc' = "finally"
    /\ UNCHANGED <<notDoc, procVars, entry, pdf, original, pages, cur, lcur, dirs, files,
                   status, page_count, s3_keys, bundles, failed>>

\* finally: if pdf: pdf.close(); then the pending exception leaves
\* process_pdf, or render_pages starts
close_document ==
    /\ pc = "finally"
    /\ handle' = IF Truthy(PdfDocument(pdf)) THEN "closed" ELSE handle
    /\ IF error = "none"
       THEN pc' = "render" /\ cur' = 1 /\ lcur' = 0
       ELSE pc' = "raised" /\ UNCHANGED <<cur, lcur>>
    /\ UNCHANGED <<notDoc, entry, pdf, original, pages, dirs, files, status, page_count,
                   s3_keys, bundles, error, failed,
                   opens, temp_doc, view, writes, document, returned, record_info>>

\* render_pages: page_dir.mkdir, then render_page(...).save(page.png);
\* render_page opens its own PdfDocument(file)
render_page ==
    /\ pc = "render"
    /\ cur <= Len(pages)
    /\ lcur = 0
    /\ dirs' = dirs \cup {pages[cur].number}
    /\ \/ /\ LET n == pages[cur].number
                 doc == PdfDocument(pdf)
             IN /\ files' = files \cup {<<n, 0>>}
                /\ writes' = Append(writes, <<n, 0>>)
                /\ view' = doc[n]
                /\ temp_doc' = doc
          /\ IF Len(pages[cur].layers) = 0
             THEN cur' = cur + 1 /\ lcur' = 0
             ELSE cur' = cur /\ lcur' = 1
          /\ UNCHANGED <<pc, error, failed>>
       \/ /\ Raise("render_page")
          /\ failed' = <<pages[cur].number, 0>>
          /\ UNCHANGED <<files, cur, lcur, temp_doc, view, writes>>
    /\ UNCHANGED <<notDoc, entry, pdf, original, pages, status, page_count, s3_keys,
                   bundles, handle, opens, document, returned, record_info>>

\* render_pages: render_layer(file, n, first id, last id).save(l{z_idx}.png)
\* for the next layer of page.layers.items(); render_layer opens its own
\* PdfDocument(file) and create_layer removes objects from its page
render_page_layer ==
    /\ pc = "render"
    /\ cur <= Len(pages)
    /\ lcur >= 1
    /\ LET layer == pages[cur].layers[lcur]
           n == pages[cur].number
           doc == PdfDocument(pdf)
           start == layer.value.objects[1].id
           end == layer.value.objects[Len(layer.value.objects)].id
       IN \/ /\ files' = files \cup {<<n, layer.key>>}
             /\ writes' = Append(writes, <<n, layer.key>>)
             /\ view' = doc[n]
             /\ temp_doc' = [doc EXCEPT ![n] = create_layer(pdf[n], doc[n], start, end)]
             /\ IF lcur = Len(pages[cur].layers)
                THEN cur' = cur + 1 /\ lcur' = 0
                ELSE cur' = cur /\ lcur' = lcur + 1
             /\ UNCHANGED <<pc, error, failed>>
          \/ /\ Raise("render_layer")
             /\ failed' = <<n, layer.key>>
             /\ UNCHANGED <<files, cur, lcur, temp_doc, view, writes>>
    /\ UNCHANGED <<notDoc, entry, pdf, original, pages, dirs, status, page_count,
                   s3_keys, bundles, handle, opens, document, returned, record_info>>

\* process_pdf that updates the Document it was given and returns it
process_pdf_returnInPlace ==
    /\ pc = "render"
    /\ cur > Len(pages)
    /\ document' = model_copy(document, Len(pages), pages, extract_meta_data(pdf))
    /\ returned' = document'
    /\ pc' = IF entry = "process_object" THEN "update" ELSE "done"
    /\ UNCHANGED <<notDoc, docVars, handle, opens, temp_doc, view, writes, record_info>>

\* render_pages returns; process_pdf returns document.model_copy(update=...)
process_pdf_return ==
    /\ pc = "render"
    /\ cur > Len(pages)
    /\ returned' = model_copy(document, Len(pages), pages, extract_meta_data(pdf))
    /\ pc' = IF entry = "process_object" THEN "update" ELSE "done"
    /\ UNCHANGED <<notDoc, docVars, handle, opens, temp_doc, view, writes, document, record_info>>

\* repository.update_document_fields(page_count, info, status COMPLETED)
update_document_fields ==
    /\ pc = "update"
    /\ \/ /\ status' = "completed"
          /\ page_count' = returned.page_count
          /\ record_info' = returned.info
          /\ pc' = "sync"
          /\ error' = error
       \/ /\ Raise("update_document_fields")
          /\ UNCHANGED <<status, page_count, record_info>>
    /\ UNCHANGED <<notDoc, handle, opens, temp_doc, view, writes, document, returned, entry, pdf, original, pages, cur, lcur, dirs, files,
                   s3_keys, bundles, failed>>

\* sync_pages_to_s3: sync_directory uploads every raster, or misses one and
\* its StorageError is logged; without a pages directory only a warning
sync_pages_to_s3 ==
    /\ pc = "sync"
    /\ IF dirs # {}
       THEN \/ s3_keys' = files
            \/ \E f \in files : s3_keys' = files \ {f}
       ELSE s3_keys' = s3_keys
    /\ pc' = "save"
    /\ UNCHANGED <<notDoc, procVars, entry, pdf, original, pages, cur, lcur, dirs, files,
                   status, page_count, bundles, error, failed>>

\* repository.save_pages: nothing for no pages, else one batch of page bundles
save_pages ==
    /\ pc = "save"
    /\ \/ /\ bundles' = { page_bundle_sk(returned.id, pages[i].number) : i \in 1..Len(pages) }
          /\ pc' = "done"
          /\ error' = error
       \/ /\ pages # <<>>
          /\ Raise("save_pages")
          /\ UNCHANGED bundles
    /\ UNCHANGED <<notDoc, procVars, entry, pdf, original, pages, cur, lcur, dirs, files,
                   status, page_count, s3_keys, failed>>

DocNext ==
    \/ get_document
    \/ download_file
    \/ download_file_fails
    \/ process_pdf_start
    \/ open_document
    \/ open_document_fails
    \/ extract
    \/ extract_fails
    \/ close_document
    \/ render_page
    \/ render_page_layer
    \/ process_pdf_return
    \/ update_document_fields
    \/ sync_pages_to_s3
    \/ save_pages

DocSpec == DocInit /\ [][DocNext]_vars

\* ------------------------------------------------------ naming of rasters
\* render_pages is to write the rasters of two pages, numbered a and b, that
\* have layers with the z-indices a and b
PathInit ==
    /\ NoPage
    /\ NoDocument
    /\ NoStatus
    /\ NoUpload
    /\ NoQuery
    /\ NoBatch
    /\ NoList
    /\ NoDomain
    /\ NoBundle
    /\ NoEvent
    /\ pc = "name"
    /\ \E a, b \in PathNumbers : rasters = {a, b} \X {0, a, b}
    /\ paths = <<>>

\* render_pages builds page_file or layer_file for each of the rasters
name_rasters ==
    /\ pc = "name"
    /\ paths' = [r \in rasters |-> raster_file(r)]
    /\ pc' = "named"
    /\ UNCHANGED <<rasters, notPath>>

PathNext == name_rasters

PathSpec == PathInit /\ [][PathNext]_vars

\* ------------------------------------------------ Document.update_status
\* a Document in any status, before any call of update_status
StatusInit ==
    /\ NoPage
    /\ NoDocument
    /\ NoPaths
    /\ NoUpload
    /\ NoQuery
    /\ NoBatch
    /\ NoList
    /\ NoDomain
    /\ NoBundle
    /\ NoEvent
    /\ pc = "status"
    /\ doc_status \in ProcessingStatuses
    /\ calls = <<>>

\* update_status(new_status) where the transition is valid: self.status = new_status
update_status ==
    /\ Len(calls) < MaxCalls
    /\ pc = "status"
    /\ \E new_status \in ProcessingStatuses :
          /\ can_transition_to(doc_status, new_status)
          /\ doc_status' = new_status
          /\ calls' = Append(calls, [before |-> doc_status, new_status |-> new_status,
                                      raised |-> "none", after |-> new_status])
    /\ UNCHANGED <<pc, notStatus>>

\* update_status(new_status) where it is not: raise ValueError
update_status_raises ==
    /\ Len(calls) < MaxCalls
    /\ pc = "status"
    /\ \E new_status \in ProcessingStatuses :
          /\ ~can_transition_to(doc_status, new_status)
          /\ calls' = Append(calls, [before |-> doc_status, new_status |-> new_status,
                                      raised |-> "ValueError", after |-> doc_status])
    /\ UNCHANGED <<pc, doc_status, notStatus>>

StatusNext == update_status \/ update_status_raises

StatusSpec == StatusInit /\ [][StatusNext]_vars

\* ------------------------------------------------- POST /documents
\* a parsed upload form reaches handle_upload_document
UploadInit ==
    /\ NoPage
    /\ NoDocument
    /\ NoPaths
    /\ NoStatus
    /\ NoQuery
    /\ NoBatch
    /\ NoList
    /\ NoDomain
    /\ NoBundle
    /\ NoEvent
    /\ pc = "request"
    /\ request \in Requests
    /\ route = "none"
    /\ raised = NoException
    /\ response = None

\* the authentication check and the validation of _process_upload
process_upload ==
    /\ pc = "request"
    /\ IF \/ request.user_id = ""
          \/ request.file = "none" /\ ~request.url
          \/ request.file # "none" /\ request.url
          \/ request.file \notin {"none", "application/pdf"}
       THEN /\ raised' = [class |-> "BadRequestError", code |-> "BAD_REQUEST"]
            /\ pc' = "respond"
       ELSE /\ raised' = raised
            /\ pc' = IF request.file # "none" THEN "upload_from_file" ELSE "upload_from_url"
    /\ UNCHANGED <<request, route, response, notUpload>>

\* document_id = await upload_service.upload_from_file(...)
call_upload_from_file ==
    /\ pc = "upload_from_file"
    /\ route' = "upload_from_file"
    /\ LET e == upload_from_file(request.s3, request.put)
       IN raised' = IF e = NoException THEN await_str ELSE e
    /\ pc' = "respond"
    /\ UNCHANGED <<request, response, notUpload>>

\* document_id = await upload_service.upload_from_url(...)
call_upload_from_url ==
    /\ pc = "upload_from_url"
    /\ route' = "upload_from_url"
    /\ LET e == upload_from_url(request.get, request.s3, request.put)
       IN raised' = IF e = NoException THEN await_str ELSE e
    /\ pc' = "respond"
    /\ UNCHANGED <<request, response, notUpload>>

\* the except clauses of handle_upload_document build the response
respond ==
    /\ pc = "respond"
    /\ response' = status_code(raised)
    /\ pc' = "responded"
    /\ UNCHANGED <<request, route, raised, notUpload>>

UploadNext == process_upload \/ call_upload_from_file \/ call_upload_from_url \/ respond

UploadSpec == UploadInit /\ [][UploadNext]_vars

\* ------------------------------------------------- vocabulary of the claims
Segmented == pc \in {"segmented", "layer"}

\* the primitives handed to the segmenter, in document order
SegInput == Yielded(page, DefaultMaxDepth)

SeqSum(f, n) ==
    LET RECURSIVE S(_)
        S(k) == IF k = 0 THEN 0 ELSE f[k] + S(k - 1)
    IN S(n)

\* how often id i occurs among the members of layer entry k
InLayer(k, i) ==
    Cardinality({ j \in 1..Len(layers[k].value.objects) : layers[k].value.objects[j].id = i })

\* how often id i occurs among the members of all layers
InLayers(i) == SeqSum([k \in 1..Len(layers) |-> InLayer(k, i)], Len(layers))

\* how often id i occurs in the zero-area list
InZero(i) ==
    Cardinality({ j \in 1..Len(zero_area_objects) : zero_area_objects[j].id = i })

\* C1: after group_by_z_index every position 0..n-1 of the primitive list occurs
\* exactly once in the output, as a member of exactly one layer or in the
\* zero-area list, never in both and never in neither; no other id occurs.
C1_Partition ==
    Segmented =>
        /\ \A i \in 0..(Len(SegInput) - 1) : InLayers(i) + InZero(i) = 1
        /\ \A k \in 1..Len(layers) : \A j \in 1..Len(layers[k].value.objects) :
              layers[k].value.objects[j].id \in 0..(Len(SegInput) - 1)
        /\ \A j \in 1..Len(zero_area_objects) :
              zero_area_objects[j].id \in 0..(Len(SegInput) - 1)

C1_Witness ==
    /\ Segmented
    /\ Len(SegInput) = 3
    /\ Len(layers) = 2
    /\ Len(zero_area_objects) = 1

\* the z-index the segmenter gave the primitive with id i (None if zero-area)
ZOf(i) ==
    IF InZero(i) > 0 THEN None
    ELSE LET k == CHOOSE k \in 1..Len(layers) : InLayer(k, i) > 0 IN layers[k].key

NonZero(i) == ~IsZeroArea(SegInput[i + 1].pos)
KindOf(i) == Classify(SegInput[i + 1].type)

\* i < j are non-zero-area primitives with no non-zero-area primitive between
Adjacent(i, j) ==
    /\ i < j /\ NonZero(i) /\ NonZero(j)
    /\ \A m \in (i + 1)..(j - 1) : ~NonZero(m)

NonDegenerate(objs) == SelectSeq(objs, LAMBDA o : ~IsZeroArea(o.pos))

\* the number of non-zero-area primitives before position i (0-based) of SegInput
RankOf(i) == Cardinality({ m \in 0..(i - 1) : NonZero(m) })

\* C3: zero-area primitives never split a run: the layers of a list are the
\* layers of the list without its zero-area primitives (same number of layers,
\* same z-index, kind and ordered members per layer), up to the shift of ids.
C3_DegenerateNeverSplits ==
    Segmented =>
        LET bare == group_by_z_index(NonDegenerate(SegInput)).layers
        IN /\ Len(bare) = Len(layers)
           /\ \A k \in 1..Len(layers) :
                 /\ bare[k].key = layers[k].key
                 /\ bare[k].value.z_index = layers[k].value.z_index
                 /\ bare[k].value.type = layers[k].value.type
                 /\ Len(bare[k].value.objects) = Len(layers[k].value.objects)
                 /\ \A j \in 1..Len(layers[k].value.objects) :
                       LET a == layers[k].value.objects[j]
                           b == bare[k].value.objects[j]
                       IN /\ b.id = RankOf(a.id)
                          /\ b.type = a.type
                          /\ b.bbox = a.bbox
                          /\ b.z_index = a.z_index

\* a zero-area primitive of another native type sits between two members of
\* one layer
C3_Witness ==
    /\ Segmented
    /\ Len(SegInput) = 3
    /\ ~NonZero(1)
    /\ SegInput[2].type # SegInput[1].type
    /\ Len(layers) = 1
    /\ Len(layers[1].value.objects) = 2

\* C4: every member of a layer has the layer's kind, and every member's
\* z_index field equals the layer's z_index, which is its dictionary key.
C4_LayerHomogeneous ==
    Segmented =>
        \A k \in 1..Len(layers) :
            /\ layers[k].value.z_index = layers[k].key
            /\ \A j \in 1..Len(layers[k].value.objects) :
                  /\ layers[k].value.objects[j].type = layers[k].value.type
                  /\ layers[k].value.objects[j].z_index = layers[k].key

C4_Witness ==
    /\ Segmented
    /\ Len(layers) = 2
    /\ Len(layers[1].value.objects) = 2
    /\ layers[2].key = 2

\* the kind changes somewhere among the non-zero-area primitives from i to j
KindChangesBetween(i, j) ==
    \E m \in i..j : NonZero(m) /\ KindOf(m) # KindOf(i)

\* C5: z-indices are unique per layer and increase in document order: for
\* non-zero-area primitives p before q, z(p) <= z(q), with z(p) < z(q) when
\* they lie in different runs; the first non-zero-area primitive gets z = 1.
C5_ZMonotone ==
    Segmented =>
        /\ \A k1, k2 \in 1..Len(layers) : layers[k1].key = layers[k2].key => k1 = k2
        /\ \A i, j \in 0..(Len(SegInput) - 1) :
              (i < j /\ NonZero(i) /\ NonZero(j)) =>
                  /\ ZOf(i) <= ZOf(j)
                  /\ KindChangesBetween(i, j) => ZOf(i) < ZOf(j)
        /\ \A i \in 0..(Len(SegInput) - 1) :
              (NonZero(i) /\ RankOf(i) = 0) => ZOf(i) = 1

C5_Witness ==
    /\ Segmented
    /\ Len(SegInput) = 3
    /\ NonZero(0) /\ NonZero(1) /\ NonZero(2)
    /\ ZOf(0) = 1 /\ ZOf(1) = 1 /\ ZOf(2) = 2

\* the page indices of the primitives the segmenter numbered start..end
IdsInRange(start, end) ==
    LET ids == GetObjects(page, DefaultMaxDepth)
    IN { ids[i + 1] : i \in { m \in start..end : m < Len(ids) } }

RemovedSet == { removed[k] : k \in 1..Len(removed) }

\* C6: render_layer(file, page, start, end) keeps exactly the primitives whose
\* sequence id, as the segmenter numbered them, lies in [start, end] and
\* removes every other primitive.
C6_RenderKeepsSegmenterIds ==
    pc = "layer" =>
        \A x \in 1..Len(page) :
            x \notin RemovedSet <=> x \in IdsInRange(range[1], range[2])

\* C9: a primitive is in the zero-area list iff its width (x2 - x1) or its
\* height (y2 - y1) is below 1e-4; every layer member has both at least 1e-4.
C9_DegenerateIff ==
    Segmented =>
        /\ \A i \in 0..(Len(SegInput) - 1) :
              InZero(i) > 0 <=>
                  \/ SegInput[i + 1].pos[3] - SegInput[i + 1].pos[1] < Epsilon
                  \/ SegInput[i + 1].pos[4] - SegInput[i + 1].pos[2] < Epsilon
        /\ \A k \in 1..Len(layers) : \A j \in 1..Len(layers[k].value.objects) :
              LET b == layers[k].value.objects[j].bbox
              IN b[3] - b[1] >= Epsilon /\ b[4] - b[2] >= Epsilon

\* a width exactly at the threshold is kept, one just below it is set aside
C9_Witness ==
    /\ Segmented
    /\ \E k \in 1..Len(layers) : \E j \in 1..Len(layers[k].value.objects) :
          LET b == layers[k].value.objects[j].bbox IN b[3] - b[1] = Epsilon
    /\ \E j \in 1..Len(zero_area_objects) :
          LET b == zero_area_objects[j].bbox
          IN b[3] - b[1] = Epsilon - 1 /\ b[4] - b[2] >= Epsilon
    /\ \E j \in 1..Len(zero_area_objects) :
          LET b == zero_area_objects[j].bbox
          IN b[4] - b[2] = Epsilon - 1 /\ b[3] - b[1] >= Epsilon

\* the rasters render_pages is to write for the extracted pages
AllRasters ==
    { <<pages[i].number, 0>> : i \in 1..Len(pages) } \cup
    UNION { { <<pages[i].number, pages[i].layers[k].key>> : k \in 1..Len(pages[i].layers) } :
            i \in 1..Len(pages) }

\* C7: a rendering failure for one layer or one page does not abort the rest:
\* when render_page or render_layer has failed for one raster, every other
\* page raster and layer raster is still rendered and written.
C7_RenderFailureIsolated ==
    (pc = "raised" /\ failed # <<>>) =>
        \A r \in AllRasters : r # failed => r \in files

\* C8: when document processing fails structurally (source missing, source
\* cannot be opened, geometry cannot be read) and process_object ends because
\* process_pdf raised, the document record's status is FAILED, not PROCESSING.
C8_StructuralFailureMarksFailed ==
    (entry = "process_object" /\ pc = "raised"
        /\ error \in {"FileNotFoundError", "PdfDocument", "extract"}) =>
        status = "failed"

\* every primitive of the raw page has a width or a height below the threshold
AllDegenerate(p) ==
    \A j \in 1..Len(p) : p[j].pos[3] - p[j].pos[1] < Epsilon \/ p[j].pos[4] - p[j].pos[2] < Epsilon

\* C10: a page whose primitives are all zero-area yields an empty layer map and
\* a zero-area list holding every primitive in document order, an empty
\* primitive list yields an empty layer map and an empty zero-area list, and
\* render_pages still writes the page's page.png and no layer raster for it.
C10_AllDegeneratePage ==
    \A i \in 1..Len(pages) :
        AllDegenerate(pdf[i]) =>
            /\ pages[i].layers = <<>>
            /\ Len(pages[i].zero_area_objects) = Len(pdf[i])
            /\ \A j \in 1..Len(pdf[i]) :
                  /\ pages[i].zero_area_objects[j].id = j - 1
                  /\ pages[i].zero_area_objects[j].bbox = pdf[i][j].pos
                  /\ pages[i].zero_area_objects[j].z_index = None
            /\ \A f \in files : f[1] = pages[i].number => f[2] = 0
            /\ (pc = "render" /\ cur > i) => <<pages[i].number, 0>> \in files
            /\ (pc \in {"update", "sync", "save", "done"}) => <<pages[i].number, 0>> \in files

\* a document of an all-zero-area page and an empty page has been rendered
C10_Witness ==
    /\ pc = "done"
    /\ Len(pdf) = 2
    /\ Len(pdf[1]) = 2 /\ AllDegenerate(pdf[1])
    /\ pdf[2] = <<>>
    /\ Len(pages) = 2
    /\ Len(pages[1].zero_area_objects) = 2
    /\ files = {<<1, 0>>, <<2, 0>>}

\* C11: when original.pdf is missing from the working directory, process_pdf
\* fails with FileNotFoundError before the document is opened, before any
\* page is processed and before any directory or raster is written, and it
\* returns no Document; only with the file present does it get any further.
C11_MissingSourceFailsFirst ==
    /\ (entry = "process_pdf" /\ ~original /\ pc # "process_pdf") =>
          /\ pc = "raised"
          /\ error = "FileNotFoundError"
    /\ error = "FileNotFoundError" =>
          /\ ~original
          /\ opens = 0 /\ handle = "none"
          /\ pages = <<>>
          /\ dirs = {} /\ files = {} /\ writes = <<>>
          /\ returned = NoDoc

\* process_pdf was called on a two-page document whose file is missing
C11_Witness ==
    /\ entry = "process_pdf"
    /\ ~original
    /\ Len(pdf) = 2
    /\ pc = "raised"
    /\ error = "FileNotFoundError"

\* C12: process_pdf returns a new Document whose page_count, pages and info
\* come from the processed source and whose id, user_id, name and source are
\* those of the Document it was given; the Document it was given is unchanged.
C12_ReturnsUpdatedCopy ==
    /\ returned # NoDoc =>
          /\ returned.page_count = Len(pdf)
          /\ returned.pages = extract_pages(pdf)
          /\ returned.info = extract_meta_data(pdf)
          /\ returned.id = TheDocument.id
          /\ returned.user_id = TheDocument.user_id
          /\ returned.name = TheDocument.name
          /\ returned.source = TheDocument.source
          /\ document = TheDocument
    /\ document \in {NoDoc, TheDocument}
    /\ (entry = "process_pdf" /\ pc = "done") => returned # NoDoc

\* process_pdf has returned the copy for a two-page source; the Document it
\* was given still has no pages
C12_Witness ==
    /\ entry = "process_pdf"
    /\ pc = "done"
    /\ Len(pdf) = 2
    /\ returned.page_count = 2
    /\ Len(returned.pages) = 2
    /\ document.pages = <<>>
    /\ document.page_count = 0

\* C13: output paths never alias: the paths built for two rasters with
\* distinct (page number, z-index) pairs differ, whether full-page or layer
\* rasters, and a page.png path never equals a layer path; this includes page
\* numbers and z-indices above 999, whose fields are wider than three digits.
C13_PathsNeverAlias ==
    pc = "named" =>
        /\ \A r1, r2 \in rasters : r1 # r2 => paths[r1] # paths[r2]
        /\ \A r1, r2 \in rasters : (r1[2] = 0 /\ r2[2] # 0) => paths[r1] # paths[r2]

\* page 1 and page 1001, and layers 1 and 1001, share their last three digits
C13_Witness ==
    /\ pc = "named"
    /\ rasters = {1, 1001} \X {0, 1, 1001}
    /\ paths[<<1, 1>>][2] = <<"p", "0", "0", "1">>
    /\ paths[<<1001, 1001>>][2] = <<"p", "1", "0", "0", "1">>
    /\ paths[<<1001, 1001>>][3] = <<"l", "1", "0", "0", "1", ".png">>
    /\ paths[<<1001, 0>>][3] = <<"page.png">>

\* process_pdf has rendered every page and returned
Rendered == returned # NoDoc

\* C14: render_pages saves, for every page, the full page exactly once and
\* then each layer exactly once in strictly increasing z-index order; pages
\* are handled in increasing page-number order, every save for page N before
\* every save for page N + 1.
C14_RenderOrder ==
    /\ \A a, b \in 1..Len(writes) :
          a < b =>
              \/ writes[a][1] < writes[b][1]
              \/ writes[a][1] = writes[b][1] /\ writes[a][2] < writes[b][2]
    /\ \A b \in 1..Len(writes) :
          writes[b][2] > 0 => \E a \in 1..(b - 1) : writes[a] = <<writes[b][1], 0>>
    /\ Rendered =>
          /\ { writes[a] : a \in 1..Len(writes) } = AllRasters
          /\ Len(writes) = Cardinality(AllRasters)

\* two pages of two layers each have been rendered
C14_Witness ==
    /\ Rendered
    /\ writes = << <<1, 0>>, <<1, 1>>, <<1, 2>>, <<2, 0>>, <<2, 1>>, <<2, 2>> >>

\* C16: when process_object has completed without error for a key whose
\* document record exists, the record has status COMPLETED, the page count of
\* the processed pages and the extracted info, every raster of the pages
\* directory is in object storage under <user>/<doc>/pages, and one page
\* bundle item per page (sort key PAGE#<doc>#NNN) was handed to the save.
C16_CompletedObjectIsPersisted ==
    (entry = "process_object" /\ pc = "done" /\ document # NoDoc) =>
        /\ status = "completed"
        /\ page_count = Len(pages)
        /\ Len(pages) = Len(pdf)
        /\ record_info = extract_meta_data(pdf)
        /\ files = AllRasters
        /\ s3_keys = files
        /\ bundles = { page_bundle_sk(TheDocument.id, n) : n \in 1..Len(pages) }
        /\ Cardinality(bundles) = Len(pages)

\* C17: Document.update_status accepts only PROCESSING -> COMPLETED and
\* PROCESSING -> FAILED; every other request, PROCESSING -> PROCESSING and any
\* request in status COMPLETED or FAILED included, raises ValueError and leaves
\* the status as it was, so a COMPLETED or FAILED status never changes again.
C17_StatusMachine ==
    /\ \A k \in 1..Len(calls) :
          LET c == calls[k]
              valid == c.before = "processing" /\ c.new_status \in {"completed", "failed"}
          IN /\ valid => (c.raised = "none" /\ c.after = c.new_status)
             /\ ~valid => (c.raised = "ValueError" /\ c.after = c.before)
             /\ k < Len(calls) => calls[k + 1].before = c.after
             /\ c.before \in {"completed", "failed"} => c.after = c.before
    /\ calls # <<>> => doc_status = calls[Len(calls)].after

\* a PROCESSING Document was asked for PROCESSING, completed, and then asked
\* to fail
C17_Witness ==
    /\ Len(calls) = 3
    /\ calls[1].before = "processing" /\ calls[1].new_status = "processing"
    /\ calls[1].raised = "ValueError"
    /\ calls[2].new_status = "completed" /\ calls[2].raised = "none"
    /\ calls[3].new_status = "failed" /\ calls[3].raised = "ValueError"
    /\ doc_status = "completed"

\* the conditional put found the record after the S3 upload had succeeded
RecordExistsAfterUpload ==
    /\ route \in {"upload_from_file", "upload_from_url"}
    /\ route = "upload_from_url" => request.get = 200
    /\ request.s3 = "ok"
    /\ request.put = "ConditionalCheckFailedException"

\* C18: when the conditional put finds that the document record already exists
\* after the S3 upload succeeded, upload_from_file and upload_from_url raise
\* DocumentAlreadyExistsError, not a generic StorageError, and the upload
\* handler answers 409.
C18_ExistingRecordIsConflict ==
    RecordExistsAfterUpload =>
        /\ raised.class = "DocumentAlreadyExistsError"
        /\ pc = "responded" => response = 409

\* the ids of the members of layer entry k
LayerIds(k) == { layers[k].value.objects[j].id : j \in 1..Len(layers[k].value.objects) }

\* the id of the first and of the last member of layer entry k, which
\* render_pages passes to render_layer as start and end
FirstId(k) == layers[k].value.objects[1].id
LastId(k) == layers[k].value.objects[Len(layers[k].value.objects)].id

\* C19: for every layer the id range passed to render_layer is [min member
\* id, max member id]; every primitive whose id lies in that range is a
\* member of the layer or a zero-area primitive; the ranges of distinct layers
\* are disjoint and ordered by z-index.
C19_LayerRanges ==
    Segmented =>
        /\ \A k \in 1..Len(layers) :
              /\ \A i \in LayerIds(k) : FirstId(k) <= i /\ i <= LastId(k)
              /\ \A i \in FirstId(k)..LastId(k) : InLayer(k, i) > 0 \/ InZero(i) > 0
        /\ \A k1, k2 \in 1..Len(layers) :
              layers[k1].key < layers[k2].key => LastId(k1) < FirstId(k2)
        /\ pc = "layer" =>
              \E k \in 1..Len(layers) : range = <<FirstId(k), LastId(k)>>

\* a layer of ids 0 and 2 around a zero-area primitive, rendered as [0, 2]
C19_Witness ==
    /\ pc = "layer"
    /\ range = <<0, 2>>
    /\ InZero(1) > 0
    /\ Len(layers) = 1
    /\ LayerIds(1) = {0, 2}

\* process_pdf is past its try/finally: rendering, returned, or left by an
\* exception of the extraction or of a render
PastFinally ==
    \/ pc \in {"render", "update", "sync", "save"}
    \/ returned # NoDoc
    \/ pc = "raised" /\ error \in {"extract", "render_page", "render_layer",
                                   "update_document_fields", "save_pages"}

\* all objects of page n of the source file
WholePage(n) == [j \in 1..Len(pdf[n]) |-> j]

\* the render calls so far found their pages complete
RendersSawWholePages ==
    /\ writes = <<>> => view = <<>> /\ temp_doc = <<>>
    /\ writes # <<>> =>
          LET r == writes[Len(writes)]
          IN /\ view = WholePage(r[1])
             /\ \A n \in 1..Len(pdf) : n # r[1] => temp_doc[n] = WholePage(n)

\* C20: process_pdf opens the source exactly once for extraction and closes
\* that handle on every exit path, normal or by an exception of the
\* extraction, before the first render call; every render call opens a handle
\* of its own, so it finds its page complete whatever earlier renders removed.
C20_HandleDiscipline ==
    /\ opens <= 1
    /\ (handle # "none" \/ pages # <<>> \/ PastFinally) => opens = 1
    /\ PastFinally => handle = "closed"
    /\ RendersSawWholePages

\* ------------------------------------------------------ paginated queries
MaxResponses == 3
MaxPageItems == 2
MaxLimit == 3

\* the response pages of one DynamoDB query: page k carries its Items and,
\* unless it is the last one, the LastEvaluatedKey k the next query starts from
ResponsePages(sizes, n) ==
    [k \in 1..n |->
        [Items |-> [j \in 1..sizes[k] |-> <<k, j>>],
         LastEvaluatedKey |-> IF k < n THEN k ELSE None]]

\* self.table.query(**query_params): the page after ExclusiveStartKey, the
\* first page when the parameter is absent
table_query(table, exclusive_start_key) ==
    IF exclusive_start_key = None THEN table[1] ELSE table[exclusive_start_key + 1]

\* items[:limit] without stopping short of the limit
TrimNone(s, n) == s

\* items[:limit]
Trim(s, n) == SubSeq(s, 1, Min(n, Len(s)))

QueryInit ==
    /\ NoPage
    /\ NoDocument
    /\ NoPaths
    /\ NoStatus
    /\ NoUpload
    /\ NoBatch
    /\ NoList
    /\ NoDomain
    /\ NoBundle
    /\ NoEvent
    /\ pc = "query"
    /\ \E n \in 1..MaxResponses : \E sizes \in [1..n -> 0..MaxPageItems] :
          responses = ResponsePages(sizes, n)
    /\ limit \in {None} \cup 1..MaxLimit
    /\ items = <<>>
    /\ last_evaluated_key = None
    /\ queries = <<>>

\* _paginated_query: one turn of the while loop
paginated_query_step ==
    /\ pc = "query"
    /\ LET answer == table_query(responses, last_evaluated_key)
           got == items \o answer.Items
       IN  /\ queries' = Append(queries, last_evaluated_key)
           /\ IF limit # None /\ limit # 0 /\ Len(got) >= limit
              THEN /\ items' = Trim(got, limit)
                   /\ last_evaluated_key' = last_evaluated_key
                   /\ pc' = "returned"
              ELSE /\ items' = got
                   /\ last_evaluated_key' = answer.LastEvaluatedKey
                   /\ pc' = IF answer.LastEvaluatedKey = None
                            THEN "returned" ELSE "query"
    /\ UNCHANGED <<responses, limit, notQuery>>

\* _paginated_query: table.query raises, the client raises StorageError
paginated_query_fails ==
    /\ pc = "query"
    /\ pc' = "raised"
    /\ queries' = Append(queries, last_evaluated_key)
    /\ UNCHANGED <<responses, limit, items, last_evaluated_key, notQuery>>

QueryNext == paginated_query_step \/ paginated_query_fails

QuerySpec == QueryInit /\ [][QueryNext]_vars

\* the in-order concatenation of the Items of the first n response pages
RECURSIVE ItemsOfPages(_, _)
ItemsOfPages(table, n) ==
    IF n = 0 THEN <<>> ELSE ItemsOfPages(table, n - 1) \o table[n].Items

\* the queries issued follow the chain of LastEvaluatedKeys from the start
QueriesChained ==
    \A k \in 1..Len(queries) :
        queries[k] = IF k = 1 THEN None ELSE responses[k - 1].LastEvaluatedKey

\* C21: without a limit _paginated_query returns the Items of every response
\* page in order, the first query carries no ExclusiveStartKey and each later
\* one the previous LastEvaluatedKey, and it stops at the first page without
\* one; with a limit L it returns a prefix of at most L items of that
\* concatenation and issues no query once L items are collected
C21_PaginatedQuery ==
    /\ pc \in {"query", "returned"} /\ queries # <<>> => QueriesChained
    /\ pc = "returned" =>
        /\ limit = None =>
            /\ Len(queries) = Len(responses)
            /\ items = ItemsOfPages(responses, Len(responses))
        /\ limit # None =>
            /\ Len(items) <= limit
            /\ items = SubSeq(ItemsOfPages(responses, Len(responses)), 1, Len(items))
            /\ \A m \in 1..(Len(queries) - 1) :
                   Len(ItemsOfPages(responses, m)) < limit

\* a limited query that stopped on the limit with pages left, after trimming
C21_Witness ==
    /\ pc = "returned"
    /\ limit # None
    /\ Len(queries) > 1
    /\ Len(queries) < Len(responses)
    /\ Len(items) < Len(ItemsOfPages(responses, Len(queries)))

\* ------------------------------------------------------ batch writes
MaxBatchItems == 51
MaxUnprocessed == 1
chunk_size == 25
max_retries == 3

\* UnprocessedItems a batch_write_item response can carry for the request
\* sent: the last u of its items
UnprocessedItems(sent) ==
    {SubSeq(sent, Len(sent) - u + 1, Len(sent)) :
        u \in ((0..MaxUnprocessed) \cup {Len(sent)}) \cap (0..Len(sent))}

Range(s) == {s[k] : k \in 1..Len(s)}

\* the except clauses of batch_put_items
batch_put_except(e) ==
    IF isinstance(e, "ClientError")
    THEN [class |-> "StorageError", code |-> "batch_put_failed"]
    ELSE IF isinstance(e, "Exception")
         THEN [class |-> "StorageError", code |-> "batch_put_unexpected"]
         ELSE e

BatchInit ==
    /\ NoPage
    /\ NoDocument
    /\ NoPaths
    /\ NoStatus
    /\ NoUpload
    /\ NoQuery
    /\ NoList
    /\ NoDomain
    /\ NoBundle
    /\ NoEvent
    /\ pc = "batch"
    /\ \E n \in 0..MaxBatchItems : batch_items = [k \in 1..n |-> k]
    /\ chunk_start = 0
    /\ unprocessed = <<>>
    /\ retry_count = 0
    /\ sends = <<>>
    /\ written = {}
    /\ batch_raised = NoException

\* batch_put_items: return at once for an empty list, else enter the loop
batch_put_items ==
    /\ pc = "batch"
    /\ pc' = IF batch_items = <<>> THEN "returned" ELSE "chunk"
    /\ UNCHANGED <<batch_items, chunk_start, unprocessed, retry_count, sends,
                   written, batch_raised, notBatch>>

\* batch_put_items: send the chunk items[i : i + chunk_size]
send_chunk ==
    /\ pc = "chunk"
    /\ LET chunk == SubSeq(batch_items, chunk_start + 1,
                           Min(chunk_start + chunk_size, Len(batch_items)))
       IN  /\ unprocessed' \in UnprocessedItems(chunk)
           /\ written' = written \cup (Range(chunk) \ Range(unprocessed'))
    /\ retry_count' = 0
    /\ sends' = Append(sends, [first |-> chunk_start + 1,
                                size |-> Min(chunk_size, Len(batch_items) - chunk_start),
                                calls |-> 1])
    /\ pc' = "retry"
    /\ UNCHANGED <<batch_items, chunk_start, batch_raised, notBatch>>

\* batch_put_items: one turn of the retry loop, re-sending the unprocessed
retry_unprocessed ==
    /\ pc = "retry"
    /\ unprocessed # <<>> /\ retry_count < max_retries
    /\ retry_count' = retry_count + 1
    /\ unprocessed' \in UnprocessedItems(unprocessed)
    /\ written' = written \cup (Range(unprocessed) \ Range(unprocessed'))
    /\ sends' = [sends EXCEPT ![Len(sends)].calls = @ + 1]
    /\ UNCHANGED <<pc, batch_items, chunk_start, batch_raised, notBatch>>

\* batch_put_items: after the retry loop, raise for what is still
\* unprocessed or go on with the next chunk
chunk_done ==
    /\ pc = "retry"
    /\ ~(unprocessed # <<>> /\ retry_count < max_retries)
    /\ IF unprocessed # <<>>
       THEN /\ batch_raised' = batch_put_except(
                   [class |-> "StorageError", code |-> "batch_write_incomplete"])
            /\ pc' = "raised"
            /\ UNCHANGED chunk_start
       ELSE /\ chunk_start' = chunk_start + chunk_size
            /\ pc' = IF chunk_start + chunk_size < Len(batch_items)
                     THEN "chunk" ELSE "returned"
            /\ UNCHANGED batch_raised
    /\ UNCHANGED <<batch_items, unprocessed, retry_count, sends, written, notBatch>>

\* batch_put_items: batch_write_item raises ClientError
batch_write_fails ==
    /\ pc \in {"chunk", "retry"}
    /\ pc = "retry" => unprocessed # <<>> /\ retry_count < max_retries
    /\ batch_raised' = batch_put_except([class |-> "ClientError", code |-> ""])
    /\ pc' = "raised"
    /\ UNCHANGED <<batch_items, chunk_start, unprocessed, retry_count, sends,
                   written, notBatch>>

BatchNext ==
    \/ batch_put_items
    \/ send_chunk
    \/ retry_unprocessed
    \/ chunk_done
    \/ batch_write_fails

BatchSpec == BatchInit /\ [][BatchNext]_vars

\* retries ran out with items of the current chunk unprocessed
Incomplete ==
    /\ pc = "raised"
    /\ unprocessed # <<>>
    /\ retry_count = max_retries

\* C22: when unprocessed items remain after the third retry, batch_put_items
\* raises StorageError with code batch_write_incomplete
C22_IncompleteCode ==
    Incomplete =>
        batch_raised = [class |-> "StorageError", code |-> "batch_write_incomplete"]

\* ------------------------------------------------------ listing documents
MaxListItems == 2

\* the items a query of one user's PDF# keys can return: document records as
\* _serialize_document writes them, and items of another type
ListItems ==
    [type : {"DOCUMENT", "PAGE_BUNDLE"}, document_id : {"d1", "d2"},
     name : {"a.pdf"}, source : {"file"}, status : {"processing", "completed"},
     page_count : {0, 2}, size_in_bytes : {0, 1024}]

\* the fields the Document model declares
DocumentFields == {"id", "user_id", "name", "source", "status", "pages"}

\* Document(**kwargs): the declared fields of the keyword arguments, pages
\* defaulting to the empty dict; other keywords are dropped
Document(kwargs) ==
    [f \in DocumentFields |-> IF f \in DOMAIN kwargs THEN kwargs[f] ELSE <<>>]

\* Document.page_count: len(self.pages)
Document_page_count(doc) == Len(doc.pages)

\* DynamoDBDocumentRepository.document_pk
document_pk(user_id) == <<"USER#", user_id>>

\* _deserialize_document for an item of type DOCUMENT that has a source
deserialize_document(user_id, item) ==
    Document([id |-> item.document_id, user_id |-> user_id, name |-> item.name,
              source |-> item.source, status |-> item.status,
              page_count |-> item.page_count,
              size_in_bytes |-> item.size_in_bytes, info |-> None])

\* [item for item in items if item.get("type") == "DOCUMENT"]
document_items(its) == SelectSeq(its, LAMBDA item : item.type = "DOCUMENT")

ListInit ==
    /\ NoPage
    /\ NoDocument
    /\ NoPaths
    /\ NoStatus
    /\ NoUpload
    /\ NoQuery
    /\ NoBatch
    /\ NoDomain
    /\ NoBundle
    /\ NoEvent
    /\ pc = "list"
    /\ list_user \in {"u1", "u2"}
    /\ \E n \in 0..MaxListItems : table_items \in [1..n -> ListItems]
    /\ list_query = <<>>
    /\ listed = <<>>
    /\ list_raised = NoException

\* list_documents: the query answers, the DOCUMENT items are deserialized
list_documents ==
    /\ pc = "list"
    /\ list_query' = [pk |-> document_pk(list_user), sk_prefix |-> "PDF#"]
    /\ listed' = [k \in 1..Len(document_items(table_items)) |->
                    deserialize_document(list_user, document_items(table_items)[k])]
    /\ pc' = "returned"
    /\ UNCHANGED <<list_user, table_items, list_raised, notList>>

\* list_documents: the client query raises StorageError, outside the try
list_documents_fails ==
    /\ pc = "list"
    /\ list_query' = [pk |-> document_pk(list_user), sk_prefix |-> "PDF#"]
    /\ list_raised' = [class |-> "StorageError", code |-> "query_items_failed"]
    /\ pc' = "raised"
    /\ UNCHANGED <<list_user, table_items, listed, notList>>

ListNext == list_documents \/ list_documents_fails

ListSpec == ListInit /\ [][ListNext]_vars

\* C23: list_documents queries the user's partition with prefix PDF# and
\* returns the DOCUMENT items of the answer, in query order, as Documents
\* carrying the stored id, name, status, page_count and size_in_bytes; a
\* StorageError of the query reaches the caller unchanged
C23_ListDocuments ==
    /\ pc \in {"returned", "raised"} =>
           list_query = [pk |-> <<"USER#", list_user>>, sk_prefix |-> "PDF#"]
    /\ pc = "raised" =>
           list_raised = [class |-> "StorageError", code |-> "query_items_failed"]
    /\ pc = "returned" =>
        LET stored == SelectSeq(table_items, LAMBDA item : item.type = "DOCUMENT")
        IN  /\ Len(listed) = Len(stored)
            /\ \A k \in 1..Len(stored) :
                /\ listed[k].id = stored[k].document_id
                /\ listed[k].name = stored[k].name
                /\ listed[k].status = stored[k].status
                /\ Document_page_count(listed[k]) = stored[k].page_count
                /\ "size_in_bytes" \in DOMAIN listed[k]
                /\ listed[k].size_in_bytes = stored[k].size_in_bytes

\* ------------------------------------------------------ domain model keys
MaxAdds == 3

\* kinds, z-indices and page numbers the additions are drawn from
AddKinds == {"text", "path"}
AddKeys == 1..2

\* key in d, for a dict that is never looked at
ContainsNever(d, key) == FALSE

\* key in d
Contains(d, key) == key \in DictKeys(d)

\* d[key] = v
SetItem(d, key, v) ==
    IF key \in DictKeys(d)
    THEN [k \in 1..Len(d) |-> IF d[k].key = key THEN [key |-> key, value |-> v] ELSE d[k]]
    ELSE Append(d, [key |-> key, value |-> v])

DomainState == [layer |-> dom_layer, layers |-> dom_layers, pages |-> dom_pages]

DomainInit ==
    /\ NoPage
    /\ NoDocument
    /\ NoPaths
    /\ NoStatus
    /\ NoUpload
    /\ NoQuery
    /\ NoBatch
    /\ NoList
    /\ NoBundle
    /\ NoEvent
    /\ pc = "domain"
    /\ dom_layer \in [z_index : {1}, type : AddKinds, objects : {<<>>}]
    /\ dom_layers = <<>>
    /\ dom_pages = <<>>
    /\ adds = <<>>

\* Layer.add_object(obj)
add_object(obj) ==
    /\ pc = "domain"
    /\ Len(adds) < MaxAdds
    /\ IF obj.type # dom_layer.type
       THEN /\ adds' = Append(adds, [op |-> "add_object", arg |-> obj,
                                     before |-> DomainState, raised |-> "ValueError"])
            /\ UNCHANGED dom_layer
       ELSE /\ adds' = Append(adds, [op |-> "add_object", arg |-> obj,
                                     before |-> DomainState, raised |-> "none"])
            /\ dom_layer' = [dom_layer EXCEPT !.objects = Append(@, obj)]
    /\ UNCHANGED <<pc, dom_layers, dom_pages, notDomain>>

\* Page.add_layer(layer)
add_layer(layer) ==
    /\ pc = "domain"
    /\ Len(adds) < MaxAdds
    /\ IF Contains(dom_layers, layer.z_index)
       THEN /\ adds' = Append(adds, [op |-> "add_layer", arg |-> layer,
                                     before |-> DomainState, raised |-> "ValueError"])
            /\ UNCHANGED dom_layers
       ELSE /\ adds' = Append(adds, [op |-> "add_layer", arg |-> layer,
                                     before |-> DomainState, raised |-> "none"])
            /\ dom_layers' = SetItem(dom_layers, layer.z_index, layer)
    /\ UNCHANGED <<pc, dom_layer, dom_pages, notDomain>>

\* Document.add_page(page)
add_page(p) ==
    /\ pc = "domain"
    /\ Len(adds) < MaxAdds
    /\ IF Contains(dom_pages, p.number)
       THEN /\ adds' = Append(adds, [op |-> "add_page", arg |-> p,
                                     before |-> DomainState, raised |-> "ValueError"])
            /\ UNCHANGED dom_pages
       ELSE /\ adds' = Append(adds, [op |-> "add_page", arg |-> p,
                                     before |-> DomainState, raised |-> "none"])
            /\ dom_pages' = SetItem(dom_pages, p.number, p)
    /\ UNCHANGED <<pc, dom_layer, dom_layers, notDomain>>

DomainNext ==
    \/ \E obj \in [id : AddKeys, type : AddKinds] : add_object(obj)
    \/ \E layer \in [z_index : AddKeys, type : AddKinds] : add_layer(layer)
    \/ \E p \in [number : AddKeys, width : {100, 200}] : add_page(p)

DomainSpec == DomainInit /\ [][DomainNext]_vars

LastAdd == adds[Len(adds)]

\* C24: add_object raises ValueError for an object of another kind and does
\* not append it, add_layer raises ValueError for a z_index already present
\* and keeps the existing layer, add_page raises ValueError for a page number
\* already present and keeps the existing page; otherwise the addition is made
C24_RejectedAdditions ==
    adds # <<>> =>
        LET e == LastAdd
            now == DomainState
        IN  /\ e.op = "add_object" =>
                /\ e.raised = "ValueError" <=> e.arg.type # e.before.layer.type
                /\ e.raised = "ValueError" => now = e.before
                /\ e.raised = "none" =>
                       now.layer.objects = Append(e.before.layer.objects, e.arg)
            /\ e.op = "add_layer" =>
                /\ e.raised = "ValueError" <=>
                       \E k \in 1..Len(e.before.layers) :
                           e.before.layers[k].key = e.arg.z_index
                /\ e.raised = "ValueError" => now = e.before
                /\ e.raised = "none" =>
                       now.layers = Append(e.before.layers,
                                           [key |-> e.arg.z_index, value |-> e.arg])
            /\ e.op = "add_page" =>
                /\ e.raised = "ValueError" <=>
                       \E k \in 1..Len(e.before.pages) :
                           e.before.pages[k].key = e.arg.number
                /\ e.raised = "ValueError" => now = e.before
                /\ e.raised = "none" =>
                       now.pages = Append(e.before.pages,
                                          [key |-> e.arg.number, value |-> e.arg])

\* a layer of another kind offered for a z_index that is taken, and refused
C24_Witness ==
    /\ adds # <<>>
    /\ LastAdd.op = "add_layer"
    /\ LastAdd.raised = "ValueError"
    /\ \E k \in 1..Len(dom_layers) :
        /\ dom_layers[k].key = LastAdd.arg.z_index
        /\ dom_layers[k].value # LastAdd.arg

\* ------------------------------------------------------ page bundles
MaxBundleObjs == 3
\* 0.0001, the area threshold of PDFObject.is_zero_area, in units of 1e-10
AreaEpsilon == 1000000

\* bounding boxes of the primitives of a saved page: 1e-4 by 2e-4, 0.02 by
\* 0.02, 9e-5 by 2, and zero width
BundleBoxes ==
    {<<5, 5, 15, 25>>, <<5, 5, 2005, 2005>>, <<5, 5, 14, 200005>>, <<5, 5, 5, 25>>}

BundleObjects == [type : {1, 2}, level : {0}, pos : BundleBoxes]

\* PDFObject.is_zero_area: width * height <= 0.0001
is_zero_area(obj) ==
    (obj.bbox[3] - obj.bbox[1]) * (obj.bbox[4] - obj.bbox[2]) <= AreaEpsilon

\* a or b for an Optional[int] a
Or(a, b) == IF a = None \/ a = 0 THEN b ELSE a

RECURSIVE Concat(_, _)
\* the concatenation of the first n sequences of ss
Concat(ss, n) == IF n = 0 THEN <<>> ELSE Concat(ss, n - 1) \o ss[n]

\* _serialize_page: the layers and objects entries of the item
serialize_page(p) ==
    [page_number |-> p.number,
     layers |-> [k \in 1..Len(p.layers) |->
                    [z_index |-> p.layers[k].value.z_index,
                     type |-> p.layers[k].value.type,
                     object_count |-> Len(p.layers[k].value.objects)]],
     objects |->
        Concat([k \in 1..Len(p.layers) |->
                   [j \in 1..Len(p.layers[k].value.objects) |->
                       LET obj == p.layers[k].value.objects[j]
                       IN [id |-> obj.id, type |-> obj.type, bbox |-> obj.bbox,
                           z_index |-> Or(obj.z_index, p.layers[k].value.z_index)]]],
               Len(p.layers))
        \o [j \in 1..Len(p.zero_area_objects) |->
               LET obj == p.zero_area_objects[j]
               IN [id |-> obj.id, type |-> obj.type, bbox |-> obj.bbox,
                   z_index |-> Or(obj.z_index, 0)]]]

\* _deserialize_page: one turn of the loop over item["objects"]
DeserStep(acc, obj_data) ==
    LET pdf_object == [id |-> obj_data.id, type |-> obj_data.type,
                       bbox |-> obj_data.bbox, z_index |-> obj_data.z_index]
    IN  IF is_zero_area(pdf_object)
        THEN [acc EXCEPT !.zero_area_objects = Append(@, pdf_object)]
        ELSE IF obj_data.z_index \in DictKeys(acc.object_by_layer)
             THEN [acc EXCEPT !.object_by_layer =
                      [k \in 1..Len(@) |->
                          IF @[k].key = obj_data.z_index
                          THEN [@[k] EXCEPT !.value.objects = Append(@, pdf_object)]
                          ELSE @[k]]]
             ELSE [acc EXCEPT !.object_by_layer =
                      Append(@, [key |-> obj_data.z_index,
                                 value |-> [type |-> obj_data.type,
                                            objects |-> <<pdf_object>>]])]

RECURSIVE DeserLoop(_, _, _)
DeserLoop(acc, objs, k) ==
    IF k > Len(objs) THEN acc ELSE DeserLoop(DeserStep(acc, objs[k]), objs, k + 1)

\* _deserialize_page: the Page of an item, or the ValueError of the first
\* layer.add_object that meets an object of another kind than the layer's
deserialize_page(item) ==
    LET acc == DeserLoop([object_by_layer |-> <<>>, zero_area_objects |-> <<>>],
                         item.objects, 1)
        mixed == \E k \in 1..Len(acc.object_by_layer) :
                     \E j \in 1..Len(acc.object_by_layer[k].value.objects) :
                         acc.object_by_layer[k].value.objects[j].type
                             # acc.object_by_layer[k].value.type
    IN  IF mixed
        THEN [raised |-> "ValueError", page |-> <<>>]
        ELSE [raised |-> "none",
              page |-> [number |-> item.page_number,
                        layers |-> [k \in 1..Len(acc.object_by_layer) |->
                                      [key |-> acc.object_by_layer[k].key,
                                       value |-> [z_index |-> acc.object_by_layer[k].key,
                                                  type |-> acc.object_by_layer[k].value.type,
                                                  objects |-> acc.object_by_layer[k].value.objects]]],
                        zero_area_objects |-> acc.zero_area_objects]]

\* the page numbers of the saved page
BundlePageNumbers == {1, 12}

\* the rasters render_pages writes for a page: page.png and one per layer
PageRasters(p) ==
    {<<p.number, 0>>} \cup {<<p.number, p.layers[k].key>> : k \in 1..Len(p.layers)}

\* sync_directory: the key of a file of the pages directory,
\* f"{s3_prefix.rstrip('/')}/{rel_path.as_posix()}" with s3_prefix
\* f"{user_id}/{doc_id}/pages"
s3_key(user_id, doc_id, file) == <<user_id, doc_id>> \o file

\* handle_get_page_bundle: f"{user_id}/{document_id}/pages/p{page_number:03d}"
page_path(user_id, document_id, page_number) ==
    <<user_id, document_id, <<"pages">>, <<"p">> \o Format03d(page_number)>>

\* handle_get_page_bundle: the keys get_object_url is called with for a page
signed_keys(user_id, document_id, page_number, p) ==
    {Append(page_path(user_id, document_id, page_number), <<"page.png">>)} \cup
    {Append(page_path(user_id, document_id, page_number),
            <<"l">> \o Format03d(p.layers[k].key) \o <<".png">>) :
        k \in 1..Len(p.layers)}

BundleInit ==
    /\ NoPage
    /\ NoDocument
    /\ NoPaths
    /\ NoStatus
    /\ NoUpload
    /\ NoQuery
    /\ NoBatch
    /\ NoList
    /\ NoDomain
    /\ NoEvent
    /\ pc = "sync"
    /\ \E n \in 0..MaxBundleObjs : \E raw \in [1..n -> BundleObjects] :
          \E num \in BundlePageNumbers : bundle_page = Page(num, raw)
    /\ bundle_item = <<>>
    /\ loaded = <<>>
    /\ load_raised = "none"
    /\ s3_objects = {}
    /\ signed = {}

\* sync_pages_to_s3 after render_pages: every raster of the page is stored
sync_directory ==
    /\ pc = "sync"
    /\ s3_objects' = {s3_key("user", "doc", raster_file(r)) : r \in PageRasters(bundle_page)}
    /\ pc' = "serialize"
    /\ UNCHANGED <<bundle_page, bundle_item, loaded, load_raised, signed, notBundle>>

\* save_pages: _serialize_page(page, user_id, document_id)
save_page ==
    /\ pc = "serialize"
    /\ bundle_item' = serialize_page(bundle_page)
    /\ pc' = "deserialize"
    /\ UNCHANGED <<bundle_page, loaded, load_raised, s3_objects, signed, notBundle>>

\* handle_get_page_bundle: get_page, that is _deserialize_page(item)
load_page ==
    /\ pc = "deserialize"
    /\ load_raised' = deserialize_page(bundle_item).raised
    /\ loaded' = deserialize_page(bundle_item).page
    /\ pc' = "loaded"
    /\ UNCHANGED <<bundle_page, bundle_item, s3_objects, signed, notBundle>>

\* handle_get_page_bundle: sign page.png and one URL per layer of the page
sign_urls ==
    /\ pc = "loaded"
    /\ load_raised = "none"
    /\ signed' = signed_keys("user", "doc", loaded.number, loaded)
    /\ pc' = "reported"
    /\ UNCHANGED <<bundle_page, bundle_item, loaded, load_raised, s3_objects, notBundle>>

BundleNext == sync_directory \/ save_page \/ load_page \/ sign_urls

BundleSpec == BundleInit /\ [][BundleNext]_vars

\* the ids of a list of objects, in order
Ids(objs) == [k \in 1..Len(objs) |-> objs[k].id]

\* z-index, kind and ordered member ids of each layer of a page
Partition(p) ==
    {<<p.layers[k].value.z_index, p.layers[k].value.type, Ids(p.layers[k].value.objects)>> :
        k \in 1..Len(p.layers)}

\* C25: reading a saved Page back gives the same layer z-indices, each layer
\* with the same kind and the same ordered member ids, and the same
\* zero-area list, whatever the widths and heights of the primitives
C25_BundleRoundTrip ==
    pc = "loaded" =>
        /\ load_raised = "none"
        /\ Partition(loaded) = Partition(bundle_page)
        /\ Ids(loaded.zero_area_objects) = Ids(bundle_page.zero_area_objects)

\* C26: whenever the document record has status COMPLETED, also after a later
\* step of process_object has failed, every page raster is in object
\* storage and a page bundle item is saved for each page of the document
C26_CompletedImpliesStored ==
    (entry = "process_object" /\ status = "completed") =>
        /\ AllRasters \subseteq s3_keys
        /\ bundles = { page_bundle_sk(TheDocument.id, n) : n \in 1..Len(pdf) }

\* C27: the layer z-indices of a page are exactly 1..K for its K layers, in
\* increasing order in the layer map, and no layer is empty: a run of
\* zero-area primitives uses up no z-index
C27_ZIndicesContiguous ==
    Segmented =>
        \A k \in 1..Len(layers) :
            /\ layers[k].key = k
            /\ layers[k].value.objects # <<>>

\* a zero-area primitive of a third type between two layers
C27_Witness ==
    /\ Segmented
    /\ Len(SegInput) = 3
    /\ ~NonZero(1)
    /\ SegInput[2].type # SegInput[1].type
    /\ SegInput[2].type # SegInput[3].type
    /\ Len(layers) = 2
    /\ layers[2].key = 2

\* C29: every key handle_get_page_bundle signs for a stored page, page.png
\* and one per reported layer, is a key under which sync_directory stored a
\* raster of that page
C29_SignedKeysWereWritten ==
    pc = "reported" => signed \subseteq s3_objects

\* ------------------------------------------------------ S3 events
MaxEventObjs == 3

EventDocs == {"d1", "d2"}

\* the source PDF behind each object key: one page with a text and a path,
\* and two pages
source_of(doc_id) ==
    IF doc_id = "d1"
    THEN << <<[type |-> 1, level |-> 0, pos |-> <<5, 5, 15, 25>>],
              [type |-> 2, level |-> 0, pos |-> <<5, 5, 15, 25>>]>> >>
    ELSE << <<[type |-> 1, level |-> 0, pos |-> <<5, 5, 15, 25>>]>>,
            <<[type |-> 2, level |-> 0, pos |-> <<5, 5, 14, 25>>]>> >>

NoRecord == [status |-> "absent", page_count |-> None, info |-> <<>>]

\* the record upload leaves for a document
NewRecord == [status |-> "processing", page_count |-> None, info |-> <<>>]

\* parser(event): the objects of every record, in order
parser(ev) == Concat(ev, Len(ev))

\* a batch put that adds items without replacing those of the same key
PutItemsAdd(table, new) == table \cup new

\* batch_write_item of PutRequests: an item replaces the one with its key
PutItems(table, new) ==
    {t \in table : \A n \in new : n.sk # t.sk} \cup new

\* save_pages: the page bundle items of a document's pages
page_bundles(doc_id, ps, now) ==
    {[sk |-> page_bundle_sk(doc_id, ps[i].number),
      page |-> serialize_page(ps[i]),
      created_at |-> now] : i \in 1..Len(ps)}

\* the keys sync_directory stores the rasters of a document's pages under
raster_keys(user_id, doc_id, ps) ==
    UNION {{s3_key(user_id, doc_id, raster_file(r)) : r \in PageRasters(ps[i])} :
              i \in 1..Len(ps)}

Stores == [records |-> doc_records, bundles |-> table_bundles, bucket |-> bucket,
           ops |-> ops]

EventInit ==
    /\ NoPage
    /\ NoDocument
    /\ NoPaths
    /\ NoStatus
    /\ NoUpload
    /\ NoQuery
    /\ NoBatch
    /\ NoList
    /\ NoDomain
    /\ NoBundle
    /\ pc = "event"
    /\ \E n \in 0..MaxEventObjs : \E ds \in [1..n -> EventDocs] : \E cut \in 0..n :
          LET objs == [k \in 1..n |-> [key |-> <<"u", ds[k], "original.pdf">>]]
          IN event = <<SubSeq(objs, 1, cut), SubSeq(objs, cut + 1, n)>>
    /\ doc_records \in [EventDocs -> {NoRecord, NewRecord}]
    /\ table_bundles = {}
    /\ bucket = {}
    /\ ops = [o \in {"download", "process_pdf", "update", "sync", "save"} |-> 0]
    /\ handled = <<>>

\* the object lambda_handler's loop takes next
NextObject == parser(event)[Len(handled) + 1]

\* process_object raising DocumentNotFoundError instead of returning
process_object_absentRaises ==
    /\ pc = "event"
    /\ Len(handled) < Len(parser(event))
    /\ doc_records[NextObject.key[2]] = NoRecord
    /\ handled' = Append(handled, [key |-> NextObject.key, found |-> FALSE,
                                   outcome |-> "raised", sync |-> "none",
                                   before |-> Stores, after |-> Stores])
    /\ pc' = "raised"
    /\ UNCHANGED <<event, doc_records, table_bundles, bucket, ops, notEvent>>

\* process_object for a key without a document record: log and return
process_object_absent ==
    /\ pc = "event"
    /\ Len(handled) < Len(parser(event))
    /\ doc_records[NextObject.key[2]] = NoRecord
    /\ handled' = Append(handled, [key |-> NextObject.key, found |-> FALSE,
                                   outcome |-> "skipped", sync |-> "none",
                                   before |-> Stores, after |-> Stores])
    /\ UNCHANGED <<pc, event, doc_records, table_bundles, bucket, ops, notEvent>>

\* process_object for a key with a document record, every step succeeding;
\* sync_directory may miss a raster, which sync_pages_to_s3 only logs
process_object_ok(sync) ==
    /\ pc = "event"
    /\ Len(handled) < Len(parser(event))
    /\ LET user_id == NextObject.key[1]
           doc_id == NextObject.key[2]
           ps == extract_pages(source_of(doc_id))
           keys == raster_keys(user_id, doc_id, ps)
       IN  /\ doc_records[doc_id] # NoRecord
           /\ doc_records' = [doc_records EXCEPT ![doc_id] =
                  [status |-> "completed", page_count |-> Len(ps),
                   info |-> extract_meta_data(source_of(doc_id))]]
           /\ IF sync = "ok"
              THEN bucket' = bucket \cup keys
              ELSE \E missed \in keys : bucket' = bucket \cup (keys \ {missed})
           /\ table_bundles' = PutItems(table_bundles,
                                        page_bundles(doc_id, ps, Len(handled) + 1))
           /\ ops' = [o \in DOMAIN ops |-> ops[o] + 1]
           /\ handled' = Append(handled,
                  [key |-> NextObject.key, found |-> TRUE, outcome |-> "ok",
                   sync |-> sync, before |-> Stores,
                   after |-> [records |-> doc_records', bundles |-> table_bundles',
                              bucket |-> bucket', ops |-> ops']])
    /\ UNCHANGED <<pc, event, notEvent>>

\* process_object for a key with a document record, raising at the download
\* or, after the update and the sync, at save_pages; lambda_handler ends
process_object_raises(step) ==
    /\ pc = "event"
    /\ Len(handled) < Len(parser(event))
    /\ LET user_id == NextObject.key[1]
           doc_id == NextObject.key[2]
           ps == extract_pages(source_of(doc_id))
       IN  /\ doc_records[doc_id] # NoRecord
           /\ IF step = "download"
              THEN /\ ops' = [ops EXCEPT !["download"] = @ + 1]
                   /\ UNCHANGED <<doc_records, bucket>>
              ELSE /\ ops' = [o \in DOMAIN ops |-> ops[o] + 1]
                   /\ doc_records' = [doc_records EXCEPT ![doc_id] =
                          [status |-> "completed", page_count |-> Len(ps),
                           info |-> extract_meta_data(source_of(doc_id))]]
                   /\ bucket' = bucket \cup raster_keys(user_id, doc_id, ps)
           /\ handled' = Append(handled,
                  [key |-> NextObject.key, found |-> TRUE, outcome |-> "raised",
                   sync |-> "none", before |-> Stores,
                   after |-> [records |-> doc_records', bundles |-> table_bundles,
                              bucket |-> bucket', ops |-> ops']])
    /\ pc' = "raised"
    /\ UNCHANGED <<event, table_bundles, notEvent>>

\* lambda_handler: the loop is over, return statusCode 200
lambda_handler_return ==
    /\ pc = "event"
    /\ Len(handled) = Len(parser(event))
    /\ pc' = "returned"
    /\ UNCHANGED <<event, doc_records, table_bundles, bucket, ops, handled, notEvent>>

EventNext ==
    \/ process_object_absent
    \/ \E sync \in {"ok", "partial"} : process_object_ok(sync)
    \/ \E step \in {"download", "save_pages"} : process_object_raises(step)
    \/ lambda_handler_return

EventSpec == EventInit /\ [][EventNext]_vars

\* what is persisted for one document: its record, its page bundle items
\* without created_at, how many there are, and its object-store keys
Persisted(st, doc_id) ==
    LET its == {t \in st.bundles : t.sk[2] = doc_id}
    IN [record |-> st.records[doc_id],
        bundles |-> {[sk |-> t.sk, page |-> t.page] : t \in its},
        count |-> Cardinality(its),
        keys |-> {k \in st.bucket : k[2] = doc_id}]

\* C28: handling the same object key a second time, whatever the record's
\* status by then, leaves the record (COMPLETED, page_count, info), the page
\* bundle items apart from created_at and the object-store keys as the first
\* handling left them; the second run is not skipped and adds no item
C28_DuplicateDelivery ==
    \A i, j \in 1..Len(handled) :
        (i < j /\ handled[i].key = handled[j].key
               /\ handled[i].outcome = "ok" /\ handled[i].sync = "ok") =>
            /\ handled[j].found
            /\ (handled[j].outcome = "ok" /\ handled[j].sync = "ok") =>
                /\ Persisted(handled[j].after, handled[j].key[2])
                       = Persisted(handled[i].after, handled[i].key[2])
                /\ Persisted(handled[j].after, handled[j].key[2]).record.status
                       = "completed"
                /\ Persisted(handled[j].after, handled[j].key[2]).count
                       = Len(source_of(handled[j].key[2]))

\* the two-page document handled twice in one event, with another in between
C28_Witness ==
    /\ pc = "returned"
    /\ Len(handled) = 3
    /\ handled[1].key[2] = "d2" /\ handled[3].key[2] = "d2" /\ handled[2].key[2] = "d1"
    /\ \A k \in 1..3 : handled[k].outcome = "ok" /\ handled[k].sync = "ok"
    /\ handled[3].before.records["d2"].status = "completed"
    /\ \E t \in table_bundles : t.created_at = 3

\* C30: for an object whose document record does not exist process_object
\* downloads, renders, updates, syncs and writes nothing and lambda_handler
\* goes on with the next object; when no object raises, lambda_handler has
\* handled every object of the event exactly once, in event order
C30_MissingRecordSkipped ==
    /\ \A k \in 1..Len(handled) :
        /\ handled[k].key = parser(event)[k].key
        /\ handled[k].found <=> handled[k].before.records[handled[k].key[2]] # NoRecord
        /\ ~handled[k].found =>
            /\ handled[k].outcome = "skipped"
            /\ handled[k].after = handled[k].before
        /\ k < Len(handled) => handled[k].outcome # "raised"
    /\ Len(handled) <= Len(parser(event))
    /\ pc = "returned" =>
        /\ Len(handled) = Len(parser(event))
        /\ \A k \in 1..Len(handled) : handled[k].outcome \in {"ok", "skipped"}
    /\ (pc = "event" /\ handled # <<>>) => Stores = handled[Len(handled)].after
    /\ (pc = "raised") => handled[Len(handled)].outcome = "raised"

\* a missing record between two processed objects, in two SQS records
C30_Witness ==
    /\ pc = "returned"
    /\ Len(handled) = 3
    /\ Len(event[1]) = 1
    /\ handled[1].outcome = "ok"
    /\ handled[2].outcome = "skipped"
    /\ handled[3].outcome = "ok"
    /\ ops["download"] = 2

====
